---- MODULE Spec2Model ----
(***************************************************************************)
(* Resume relevance system: the evaluation pipeline of one resume against  *)
(* one job description.  The semantic matcher (exact -> fuzzy -> semantic  *)
(* cascade) and the scoring engine (weights, component scores, overall     *)
(* score, suitability, confidence level) are modelled from                 *)
(* app/core/ai_pipeline/semantic_matcher.py and scoring_engine.py, driven  *)
(* in the order of MatchingService._run_matching_pipeline.                 *)
(*                                                                         *)
(* Numbers.  Python floats in [0,1] (scores, confidences, similarities,    *)
(* weights) are fixed-point integers in thousandths (0.85 is 850).  A      *)
(* score "times 100, rounded to one decimal" is then the same integer read *)
(* as tenths of a point (85.0 points is 850).  The unrounded overall score *)
(* is kept in units of 1/10000 point (80 points is 800000) so that the     *)
(* rounding of the reported value is visible.  Years are tenths of a year. *)
(***************************************************************************)
EXTENDS Integers, Sequences, FiniteSets, TLC

VARIABLES pc, skill_profile, jd_parsed, parsed_resume, weights, backend,
          semantic_match, tiers, final_score,
          done, feedback, db, error,
          tfidf_fitted, ev,
          text, nlp, extracted_skills, unique_skills, component_score,
          llm, personalized_feedback,
          raw_resume, structured_resume,
          tier_input, tier_matches,
          upload_dir, resume_table, next_resume_id, http_response,
          batch

vars == <<pc, skill_profile, jd_parsed, parsed_resume, weights, backend,
          semantic_match, tiers, final_score, done, feedback, db, error,
          tfidf_fitted, ev,
          text, nlp, extracted_skills, unique_skills, component_score,
          llm, personalized_feedback,
          raw_resume, structured_resume,
          tier_input, tier_matches,
          upload_dir, resume_table, next_resume_id, http_response,
          batch>>

\* ------------------------------------------------------------------ bounds
\* Longest list of resume skills and of JD required skills drawn in SpecMatch.
MaxResumeSkills == 3
MaxRequired == 2

\* Python's None for an Optional[int] / Optional[float] field.
NONE == 0 - 1

\* ------------------------------------------------------------- arithmetic
Min(a, b) == IF a <= b THEN a ELSE b
Max(a, b) == IF a >= b THEN a ELSE b

RECURSIVE SumSeq(_)
SumSeq(s) == IF s = <<>> THEN 0 ELSE Head(s) + SumSeq(Tail(s))

Range(s) == {s[i] : i \in 1..Len(s)}

\* round(n/d) to the nearest integer, ties to even (Python's round), d > 0.
RoundDiv(n, d) ==
    LET q == n \div d
        r == n - q * d
    IN  IF 2 * r < d THEN q
        ELSE IF 2 * r > d THEN q + 1
        ELSE IF q % 2 = 0 THEN q ELSE q + 1

\* ------------------------------------------------------------ skill names
\* Resume skill names by SkillProfile bucket, JD skill names as the JD parser
\* spells them.
TechnicalNames == <<"python", "c++", "postgres">>
SoftNames      == <<"leadership">>
DomainNames    == <<"numpy">>
ToolNames      == <<"aws">>
JdNames        == {"Python", "C#", "Postgresql", "AWS", "scipy"}

\* str.lower()
Lower(s) ==
    CASE s = "Python"     -> "python"
      [] s = "C#"         -> "c#"
      [] s = "Postgresql" -> "postgresql"
      [] s = "AWS"        -> "aws"
      [] s = "Docker (must)" -> "docker (must)"
      [] s = "SQL (required)" -> "sql (required)"
      [] OTHER            -> s

\* fuzz.token_sort_ratio(jd, resume): 0..100, on the lower-cased strings with
\* every non-alphanumeric character turned into a blank ("C#" and "c++" both
\* become "c").
token_sort_ratio(jd, res) ==
    LET p == <<Lower(jd), res>>
    IN  CASE p = <<"python", "python">>       -> 100
          [] p = <<"python", "postgres">>     -> 29
          [] p = <<"python", "leadership">>   -> 12
          [] p = <<"python", "numpy">>        -> 36
          [] p = <<"c#", "c++">>              -> 100
          [] p = <<"c#", "c">>                -> 100
          [] p = <<"scipy", "c">>             -> 33
          [] p = <<"postgresql", "python">>   -> 25
          [] p = <<"postgresql", "postgres">> -> 89
          [] p = <<"postgresql", "leadership">> -> 10
          [] p = <<"postgresql", "numpy">>    -> 13
          [] p = <<"postgresql", "aws">>      -> 15
          [] p = <<"aws", "postgres">>        -> 18
          [] p = <<"aws", "leadership">>      -> 31
          [] p = <<"aws", "aws">>             -> 100
          [] p = <<"scipy", "python">>        -> 36
          [] p = <<"scipy", "c++">>           -> 33
          [] p = <<"scipy", "postgres">>      -> 15
          [] p = <<"scipy", "leadership">>    -> 40
          [] p = <<"scipy", "numpy">>         -> 40
          [] p = <<"scipy", "aws">>           -> 25
          [] p = <<"docker (must)", "docker">> -> 71
          [] OTHER                            -> 0

\* cosine_similarity of the sentence-transformer embeddings of two skill
\* names, in thousandths: what the embedding backend answers.
cosine_similarity(jd, res) ==
    LET p == <<Lower(jd), res>>
    IN  CASE p = <<"scipy", "numpy">>         -> 780
          [] p = <<"scipy", "python">>        -> 610
          [] p = <<"c#", "python">>           -> 560
          [] p = <<"c#", "c++">>              -> 720
          [] p = <<"postgresql", "postgres">> -> 930
          [] p = <<"python", "python">>       -> 1000
          [] p = <<"aws", "aws">>             -> 1000
          [] p = <<"aws", "numpy">>           -> 150
          [] p = <<"docker (must)", "docker">> -> 820
          [] OTHER                            -> 300

\* ------------------------------------------------------- semantic matcher
SkillMatch(jd_skill, resume_skill, match_type, confidence) ==
    [skill_name |-> jd_skill, resume_skill |-> resume_skill,
     jd_skill |-> jd_skill, match_type |-> match_type,
     confidence |-> confidence]

\* list.index(x): the first position of x in s.
Index(s, x) == CHOOSE i \in 1..Len(s) : s[i] = x /\ \A j \in 1..(i - 1) : s[j] # x

Filter(s, excluded) == SelectSeq(s, LAMBDA x : x \notin excluded)

\* _exact_match_skills pairing the JD skill with its own spelling instead of
\* the resume's: the variant C4 has to tell from the code.
RECURSIVE exact_match_skills_jd_spelling(_, _)
exact_match_skills_jd_spelling(resume_skills, jd_skills) ==
    IF jd_skills = <<>> THEN <<>>
    ELSE LET jd_skill == Head(jd_skills)
             resume_lower == [i \in 1..Len(resume_skills) |-> Lower(resume_skills[i])]
             here == IF Lower(jd_skill) \in Range(resume_lower)
                     THEN <<SkillMatch(jd_skill, jd_skill, "exact", 1000)>>
                     ELSE <<>>
         IN  here \o exact_match_skills_jd_spelling(resume_skills, Tail(jd_skills))

\* _exact_match_skills: a JD skill matches when its lower-cased name is in the
\* lower-cased resume list; it is paired with the first such resume skill.
RECURSIVE exact_match_skills(_, _)
exact_match_skills(resume_skills, jd_skills) ==
    IF jd_skills = <<>> THEN <<>>
    ELSE LET jd_skill == Head(jd_skills)
             resume_lower == [i \in 1..Len(resume_skills) |-> Lower(resume_skills[i])]
             here == IF Lower(jd_skill) \in Range(resume_lower)
                     THEN <<SkillMatch(jd_skill,
                                       resume_skills[Index(resume_lower, Lower(jd_skill))],
                                       "exact", 1000)>>
                     ELSE <<>>
         IN  here \o exact_match_skills(resume_skills, Tail(jd_skills))

\* extractOne returning the last choice of highest ratio: the variant C24 has
\* to tell from the library's max().
extractOne_last_on_ties(query, choices) ==
    IF choices = <<>> THEN 0
    ELSE CHOOSE i \in 1..Len(choices) :
            /\ \A j \in 1..Len(choices) :
                  token_sort_ratio(query, choices[j]) <= token_sort_ratio(query, choices[i])
            /\ \A j \in (i + 1)..Len(choices) :
                  token_sort_ratio(query, choices[j]) < token_sort_ratio(query, choices[i])

\* process.extractOne(query, choices, scorer=fuzz.token_sort_ratio): the choice
\* of highest ratio, the first one on ties; 0 (no choice) for an empty list.
extractOne(query, choices) ==
    IF choices = <<>> THEN 0
    ELSE CHOOSE i \in 1..Len(choices) :
            /\ \A j \in 1..Len(choices) :
                  token_sort_ratio(query, choices[j]) <= token_sort_ratio(query, choices[i])
            /\ \A j \in 1..(i - 1) :
                  token_sort_ratio(query, choices[j]) < token_sort_ratio(query, choices[i])

FuzzyThreshold == 85

\* _fuzzy_match_skills
RECURSIVE fuzzy_match_skills(_, _)
fuzzy_match_skills(resume_skills, jd_skills) ==
    IF jd_skills = <<>> THEN <<>>
    ELSE LET jd_skill == Head(jd_skills)
             best == extractOne(jd_skill, resume_skills)
             here == IF best # 0
                        /\ token_sort_ratio(jd_skill, resume_skills[best]) >= FuzzyThreshold
                     THEN <<SkillMatch(jd_skill, resume_skills[best], "fuzzy",
                                       token_sort_ratio(jd_skill, resume_skills[best]) * 10)>>
                     ELSE <<>>
         IN  here \o fuzzy_match_skills(resume_skills, Tail(jd_skills))

\* np.argmax(similarity_matrix[i]): first index of the largest similarity.
argmax(jd_skill, resume_skills) ==
    CHOOSE i \in 1..Len(resume_skills) :
        /\ \A j \in 1..Len(resume_skills) :
              cosine_similarity(jd_skill, resume_skills[j])
                  <= cosine_similarity(jd_skill, resume_skills[i])
        /\ \A j \in 1..(i - 1) :
              cosine_similarity(jd_skill, resume_skills[j])
                  < cosine_similarity(jd_skill, resume_skills[i])

SemanticThreshold == 700

\* _semantic_match_skills (called with non-empty lists only)
RECURSIVE semantic_match_skills(_, _)
semantic_match_skills(resume_skills, jd_skills) ==
    IF jd_skills = <<>> THEN <<>>
    ELSE LET jd_skill == Head(jd_skills)
             best == argmax(jd_skill, resume_skills)
             sim == cosine_similarity(jd_skill, resume_skills[best])
             here == IF sim >= SemanticThreshold
                     THEN <<SkillMatch(jd_skill, resume_skills[best], "semantic", sim)>>
                     ELSE <<>>
         IN  here \o semantic_match_skills(resume_skills, Tail(jd_skills))

ResumeSkillOf(matches) == {matches[i].resume_skill : i \in 1..Len(matches)} \ {""}
JdSkillOf(matches) == {matches[i].jd_skill : i \in 1..Len(matches)}

\* The fuzzy tier given every skill again: the variant C5 has to tell from the
\* code.
UnmatchedAfterExact_unfiltered(skills, used) == skills

\* The skills handed to the fuzzy tier: those no exact match used.
UnmatchedAfterExact(skills, used) == Filter(skills, used)

\* The skills handed to the semantic tier: those no fuzzy match used either.
UnmatchedAfterFuzzy(skills, used) == Filter(skills, used)

\* The cascade running its semantic tier whether or not the sentence
\* transformer is loaded: the variant C12 has to tell from the code.
match_skills_comprehensive_unguarded(resume_skills, jd_skills, loaded) ==
    LET exact_matches == exact_match_skills(resume_skills, jd_skills)
        unmatched_resume == UnmatchedAfterExact(resume_skills, ResumeSkillOf(exact_matches))
        unmatched_jd == UnmatchedAfterExact(jd_skills, JdSkillOf(exact_matches))
        fuzzy_matches == fuzzy_match_skills(unmatched_resume, unmatched_jd)
        unmatched_resume2 == UnmatchedAfterFuzzy(unmatched_resume, ResumeSkillOf(fuzzy_matches))
        unmatched_jd2 == UnmatchedAfterFuzzy(unmatched_jd, JdSkillOf(fuzzy_matches))
        run_semantic == unmatched_resume2 # <<>> /\ unmatched_jd2 # <<>>
        semantic_matches == IF run_semantic
                            THEN semantic_match_skills(unmatched_resume2, unmatched_jd2)
                            ELSE <<>>
    IN  [matches |-> exact_matches \o fuzzy_matches \o semantic_matches,
         fuzzy_resume |-> unmatched_resume, fuzzy_jd |-> unmatched_jd,
         semantic_ran |-> run_semantic,
         semantic_resume |-> IF run_semantic THEN unmatched_resume2 ELSE <<>>,
         semantic_jd |-> IF run_semantic THEN unmatched_jd2 ELSE <<>>]

\* _match_skills_comprehensive: the cascade, with the lists each tier was given.
match_skills_comprehensive(resume_skills, jd_skills, loaded) ==
    LET exact_matches == exact_match_skills(resume_skills, jd_skills)
        unmatched_resume == UnmatchedAfterExact(resume_skills, ResumeSkillOf(exact_matches))
        unmatched_jd == UnmatchedAfterExact(jd_skills, JdSkillOf(exact_matches))
        fuzzy_matches == fuzzy_match_skills(unmatched_resume, unmatched_jd)
        unmatched_resume2 == UnmatchedAfterFuzzy(unmatched_resume, ResumeSkillOf(fuzzy_matches))
        unmatched_jd2 == UnmatchedAfterFuzzy(unmatched_jd, JdSkillOf(fuzzy_matches))
        run_semantic == loaded /\ unmatched_resume2 # <<>> /\ unmatched_jd2 # <<>>
        semantic_matches == IF run_semantic
                            THEN semantic_match_skills(unmatched_resume2, unmatched_jd2)
                            ELSE <<>>
    IN  [matches |-> exact_matches \o fuzzy_matches \o semantic_matches,
         fuzzy_resume |-> unmatched_resume, fuzzy_jd |-> unmatched_jd,
         semantic_ran |-> run_semantic,
         semantic_resume |-> IF run_semantic THEN unmatched_resume2 ELSE <<>>,
         semantic_jd |-> IF run_semantic THEN unmatched_jd2 ELSE <<>>]

\* missing_skills filtered by the matched resume skills instead of the matched
\* JD skills: the variant C3 has to tell from the code.
MissingSkills_by_resume(jd_required_skills, skill_matches) ==
    Filter(jd_required_skills, ResumeSkillOf(skill_matches))

\* missing_skills (semantic_matcher.py line 98)
MissingSkills(jd_required_skills, skill_matches) ==
    Filter(jd_required_skills, JdSkillOf(skill_matches))

\* additional_skills (semantic_matcher.py line 99)
AdditionalSkills(all_resume_skills, skill_matches) ==
    Filter(all_resume_skills, ResumeSkillOf(skill_matches))

\* _calculate_embedding_similarity: 0.0 without the sentence transformer.
calculate_embedding_similarity(bk) == IF bk.loaded THEN bk.emb ELSE 0

\* _calculate_overall_similarity
calculate_overall_similarity(skill_matches, total_required_skills, embedding_similarity, text_similarity) ==
    LET conf == [i \in 1..Len(skill_matches) |-> skill_matches[i].confidence]
        skill_component ==
            IF total_required_skills > 0
            THEN Min((1000 * Len(skill_matches) + SumSeq(conf))
                         \div (2 * total_required_skills), 1000)
            ELSE 0
        overall_score == (skill_component * 400 + embedding_similarity * 350
                            + text_similarity * 250) \div 1000
    IN  Min(overall_score, 1000)

AllResumeSkills(sp) ==
    sp.technical_skills \o sp.soft_skills \o sp.domain_expertise \o sp.tools_platforms

\* match_resume_to_jd: the SemanticMatchResult.
match_resume_to_jd(sp, jd, bk) ==
    LET all_resume_skills == AllResumeSkills(sp)
        all_jd_skills == jd.required_skills \o jd.preferred_skills
        cascade == match_skills_comprehensive(all_resume_skills, all_jd_skills, bk.loaded)
        embedding_similarity == calculate_embedding_similarity(bk)
    IN  [overall_similarity |->
             calculate_overall_similarity(cascade.matches, Len(jd.required_skills),
                                          embedding_similarity, bk.tfidf),
         skill_matches |-> cascade.matches,
         missing_skills |-> MissingSkills(jd.required_skills, cascade.matches),
         additional_skills |-> AdditionalSkills(all_resume_skills, cascade.matches),
         embedding_similarity |-> embedding_similarity,
         text_similarity |-> bk.tfidf]

\* --------------------------------------------------------- scoring engine
\* total = the sum of the five weights (ScoringWeights.validate).
WeightsTotal(w) ==
    w.hard_skills + w.soft_skills + w.experience + w.education + w.semantic_match

Weights(h, s, x, e, m) ==
    [hard_skills |-> h, soft_skills |-> s, experience |-> x,
     education |-> e, semantic_match |-> m]

\* "abs(total - 1.0) > 0.01" on doubles when the decimal sum of the weights is
\* exactly 1.01 or 0.99.  The double nearest 1.01 is 1.0100000000000000089 and
\* the double nearest 0.99 is 0.98999999999999999112; both lie
\* 0.0100000000000000089 from 1.0, which is above the double 0.01
\* (0.0100000000000000002).  The test is therefore true when the additions
\* hard + soft + experience + education + semantic round to that double, as
\* they do for 0.36 + 0.15 + 0.25 + 0.15 + 0.10 and for
\* 0.34 + 0.15 + 0.25 + 0.15 + 0.10, the sets at that distance drawn here.
BoundarySumRoundsOut(w) ==
    w \in {Weights(360, 150, 250, 150, 100), Weights(340, 150, 250, 150, 100)}

\* ScoringWeights.validate: TRUE when it returns, FALSE when it raises.  Away
\* from a distance of exactly 0.01 the doubles compare as the decimals do.
validate(w) ==
    LET total == WeightsTotal(w)
        diff == IF total >= 1000 THEN total - 1000 ELSE 1000 - total
    IN  ~(diff > 10 \/ (diff = 10 /\ BoundarySumRoundsOut(w)))

\* ScoringWeights() with the dataclass defaults.
DefaultWeights ==
    [hard_skills |-> 350, soft_skills |-> 150, experience |-> 250,
     education |-> 150, semantic_match |-> 100]

\* settings.high_threshold / medium_threshold, and the "overall_score >= 50" of
\* the upgrade rule, in 1/10000 point.
HighThreshold == 800000
MediumThreshold == 600000
UpgradeFloor == 500000

\* SkillProfile.skill_diversity_score: non-empty buckets over 4.
skill_diversity_score(sp) ==
    250 * Cardinality({b \in {"technical_skills", "soft_skills", "domain_expertise",
                              "tools_platforms"} : sp[b] # <<>>})

\* _identify_critical_skills: required skills whose name holds one of the words
\* required, must, essential, mandatory.
IsCriticalName(skill) == skill \in {"Docker (must)", "SQL (required)"}
identify_critical_skills(required_skills) ==
    SelectSeq(required_skills, LAMBDA x : IsCriticalName(x))

CountAtLeast(skill_matches, c) ==
    Cardinality({i \in 1..Len(skill_matches) : skill_matches[i].confidence >= c})

\* _calculate_hard_skills_score without the clamp of line 184.
calculate_hard_skills_score_unclamped(sp, sm, jd) ==
    IF jd.required_skills = <<>> THEN 500
    ELSE LET total_required == Len(jd.required_skills)
             critical_skills == identify_critical_skills(jd.required_skills)
             missing_critical ==
                 Cardinality({i \in 1..Len(critical_skills) :
                                 critical_skills[i] \in Range(sm.missing_skills)})
         IN  (1000 * CountAtLeast(sm.skill_matches, 700)) \div total_required
                 + (skill_diversity_score(sp) * 200) \div 1000
                 + (100 * CountAtLeast(sm.skill_matches, 900)) \div total_required
                 - (IF critical_skills # <<>>
                    THEN (300 * missing_critical) \div Len(critical_skills) ELSE 0)

\* _calculate_hard_skills_score
calculate_hard_skills_score(sp, sm, jd) ==
    IF jd.required_skills = <<>> THEN 500
    ELSE LET total_required == Len(jd.required_skills)
             matched_skills == CountAtLeast(sm.skill_matches, 700)
             base_score == (1000 * matched_skills) \div total_required
             diversity_bonus == (skill_diversity_score(sp) * 200) \div 1000
             high_confidence_matches == CountAtLeast(sm.skill_matches, 900)
             confidence_bonus == (100 * high_confidence_matches) \div total_required
             critical_skills == identify_critical_skills(jd.required_skills)
             missing_critical ==
                 Cardinality({i \in 1..Len(critical_skills) :
                                 critical_skills[i] \in Range(sm.missing_skills)})
             critical_penalty ==
                 IF critical_skills # <<>>
                 THEN (300 * missing_critical) \div Len(critical_skills)
                 ELSE 0
             final == base_score + diversity_bonus + confidence_bonus - critical_penalty
         IN  Max(0, Min(1000, final))

\* "jd_skill.lower() in resume_skill": substring test on soft-skill names.
IsSubstring(keyword, name) == keyword = name

\* _calculate_soft_skills_score; jd.soft_keywords is what
\* _extract_soft_skills_from_jd finds in the JD text.
calculate_soft_skills_score(sp, jd) ==
    IF jd.soft_keywords = <<>>
    THEN (IF sp.soft_skills # <<>> THEN 800 ELSE 300)
    ELSE LET matched_soft_skills ==
                 Cardinality({i \in 1..Len(jd.soft_keywords) :
                     \E j \in 1..Len(sp.soft_skills) :
                         IsSubstring(jd.soft_keywords[i], Lower(sp.soft_skills[j]))})
             base_score == (1000 * matched_soft_skills) \div Len(jd.soft_keywords)
             variety_bonus == Min(Len(sp.soft_skills) * 100, 200)
         IN  Min(1000, base_score + variety_bonus)

\* _calculate_years_experience_score with the bonus of line 232 added
\* without the min.
calculate_years_experience_score_uncapped(pr, jd) ==
    LET candidate_years ==
            IF pr.total_experience_years = NONE THEN 0 ELSE pr.total_experience_years
        required_years ==
            IF jd.required_experience_years = NONE \/ jd.required_experience_years = 0
            THEN 20 ELSE 10 * jd.required_experience_years
    IN  IF candidate_years >= required_years
        THEN (IF 2 * candidate_years > 3 * required_years THEN 1000 + 100 ELSE 1000)
        ELSE IF 4 * candidate_years >= 3 * required_years THEN 800
        ELSE IF 2 * candidate_years >= required_years THEN 600
        ELSE (candidate_years * 500) \div required_years

\* _calculate_years_experience_score; years in tenths of a year.
calculate_years_experience_score(pr, jd) ==
    LET candidate_years ==
            IF pr.total_experience_years = NONE THEN 0 ELSE pr.total_experience_years
        required_years ==
            IF jd.required_experience_years = NONE \/ jd.required_experience_years = 0
            THEN 20 ELSE 10 * jd.required_experience_years
    IN  IF candidate_years >= required_years
        THEN (IF 2 * candidate_years > 3 * required_years THEN Min(1000, 1000 + 100)
              ELSE 1000)
        ELSE IF 4 * candidate_years >= 3 * required_years THEN 800
        ELSE IF 2 * candidate_years >= required_years THEN 600
        ELSE (candidate_years * 500) \div required_years

\* Insertion of x into a sequence sorted in descending order.
RECURSIVE InsertDesc(_, _)
InsertDesc(x, s) ==
    IF s = <<>> THEN <<x>>
    ELSE IF x >= Head(s) THEN <<x>> \o s
    ELSE <<Head(s)>> \o InsertDesc(x, Tail(s))

\* list.sort(reverse=True)
RECURSIVE SortDesc(_)
SortDesc(s) == IF s = <<>> THEN <<>> ELSE InsertDesc(Head(s), SortDesc(Tail(s)))

\* _calculate_experience_relevance_score; each work entry carries what
\* _calculate_title_relevance, _calculate_industry_relevance,
\* _calculate_description_relevance and _calculate_recency_weight return for it.
calculate_experience_relevance_score(pr) ==
    IF pr.work_experience = <<>> THEN 200
    ELSE LET relevance_scores ==
                 SortDesc([i \in 1..Len(pr.work_experience) |->
                     LET exp == pr.work_experience[i]
                     IN  ((4 * exp.title_relevance + 2 * exp.industry_relevance
                            + 4 * exp.description_relevance) * exp.recency_weight)
                             \div 10000])
         IN  IF Len(relevance_scores) >= 3
             THEN (relevance_scores[1] * 500 + relevance_scores[2] * 300
                     + relevance_scores[3] * 200) \div 1000
             ELSE IF Len(relevance_scores) = 2
             THEN (relevance_scores[1] * 700 + relevance_scores[2] * 300) \div 1000
             ELSE relevance_scores[1]

\* _calculate_experience_score
calculate_experience_score(pr, jd) ==
    (calculate_years_experience_score(pr, jd) * 600
        + calculate_experience_relevance_score(pr) * 400) \div 1000

MaxOf(S) == IF S = {} THEN 0 ELSE CHOOSE x \in S : \A y \in S : y <= x

\* _calculate_education_level_score; an education entry carries the level of
\* its degree in the education hierarchy (0: no degree recognised) and
\* jd.required_level is what _extract_required_education_level returns.
calculate_education_level_score(education_list, jd) ==
    LET max_level == MaxOf({education_list[i].level : i \in 1..Len(education_list)})
    IN  IF max_level >= jd.required_level THEN 1000
        ELSE IF max_level >= jd.required_level - 1 THEN 800
        ELSE 500

\* _calculate_education_relevance_score; jd.domain_keywords is the number of
\* keywords _extract_job_domain_keywords returns, an entry's keyword_hits how
\* many of them its degree text holds.
calculate_education_relevance_score(education_list, jd) ==
    IF jd.domain_keywords = 0 THEN 700
    ELSE LET max_relevance ==
                 MaxOf({education_list[i].keyword_hits : i \in 1..Len(education_list)})
         IN  Min(1000, (1000 * max_relevance) \div jd.domain_keywords)

\* _calculate_education_score
calculate_education_score(pr, jd) ==
    IF pr.education = <<>> THEN 300
    ELSE (calculate_education_level_score(pr.education, jd) * 600
            + calculate_education_relevance_score(pr.education, jd) * 400) \div 1000

\* _calculate_semantic_score
calculate_semantic_score(sm) == sm.overall_similarity

\* The five component scores as calculate_comprehensive_score computes them.
ComponentScores(pr, sp, sm, jd) ==
    [hard_skills |-> calculate_hard_skills_score(sp, sm, jd),
     soft_skills |-> calculate_soft_skills_score(sp, jd),
     experience |-> calculate_experience_score(pr, jd),
     education |-> calculate_education_score(pr, jd),
     semantic_match |-> calculate_semantic_score(sm)]

\* The weighted overall score before rounding, in 1/10000 point
\* (scoring_engine.py lines 127-133).
WeightedOverall(c, w) ==
    c.hard_skills * w.hard_skills + c.soft_skills * w.soft_skills
        + c.experience * w.experience + c.education * w.education
        + c.semantic_match * w.semantic_match

\* _calculate_detailed_scores: every score in tenths of a point.
calculate_detailed_scores(pr, sp, sm, jd, c) ==
    LET conf == [i \in 1..Len(sm.skill_matches) |-> sm.skill_matches[i].confidence]
        n == Len(sm.skill_matches)
        parsing_confidence == pr.parsing_confidence
    IN  [hard_skills_score |-> c.hard_skills,
         soft_skills_score |-> c.soft_skills,
         experience_score |-> c.experience,
         education_score |-> c.education,
         semantic_match_score |-> c.semantic_match,
         technical_skills_score |-> Min(Len(sp.technical_skills) * 100, 1000),
         domain_expertise_score |-> Min(Len(sp.domain_expertise) * 200, 1000),
         tools_platforms_score |-> Min(Len(sp.tools_platforms) * 125, 1000),
         years_experience_score |-> calculate_years_experience_score(pr, jd),
         experience_relevance_score |-> calculate_experience_relevance_score(pr),
         education_level_score |-> calculate_education_level_score(pr.education, jd),
         education_relevance_score |-> calculate_education_relevance_score(pr.education, jd),
         skills_matched_count |-> n,
         skills_required_count |-> Len(jd.required_skills),
         skills_missing_count |-> Len(sm.missing_skills),
         skills_additional_count |-> Len(sm.additional_skills),
         parsing_confidence |-> parsing_confidence,
         matching_confidence |-> IF n > 0 THEN RoundDiv(SumSeq(conf), n) ELSE 500,
         overall_confidence |->
             IF n > 0 THEN RoundDiv(parsing_confidence * n + SumSeq(conf), 2 * n)
             ELSE RoundDiv(parsing_confidence + 500, 2)]

\* The level the thresholds alone give (scoring_engine.py lines 401-406).
BaseSuitability(overall_score) ==
    IF overall_score >= HighThreshold THEN "High"
    ELSE IF overall_score >= MediumThreshold THEN "Medium"
    ELSE "Low"

\* Rule 1 taking only High down: the variant C7 has to tell from the code.
DowngradeMissing_high_only(level, d) ==
    IF d.skills_missing_count > d.skills_matched_count
    THEN (IF level = "High" THEN "Medium" ELSE level)
    ELSE level

\* Rule 1 with the comparison turned round: the variant C8 has to tell from the
\* code.
DowngradeMissing_inverted(level, d) ==
    IF d.skills_missing_count < d.skills_matched_count
    THEN (IF level = "High" THEN "Medium"
          ELSE IF level = "Medium" THEN "Low" ELSE level)
    ELSE level

\* Lines 411-415: more skills missing than matched takes the level down one.
DowngradeMissing(level, d) ==
    IF d.skills_missing_count > d.skills_matched_count
    THEN (IF level = "High" THEN "Medium"
          ELSE IF level = "Medium" THEN "Low" ELSE level)
    ELSE level

\* Lines 418-422 lifting every level by one: the variant C30 has to tell from
\* the code.
UpgradeExceptional_any_level(level, overall_score, d) ==
    IF d.experience_score >= 900 \/ d.hard_skills_score >= 950 \/ d.education_score >= 900
    THEN (IF overall_score >= UpgradeFloor
          THEN (IF level = "Low" THEN "Medium" ELSE "High")
          ELSE level)
    ELSE level

\* Lines 418-422 without the floor of 50 points: the variant C26 has to tell
\* from the code.
UpgradeExceptional_no_floor(level, overall_score, d) ==
    IF d.experience_score >= 900 \/ d.hard_skills_score >= 950 \/ d.education_score >= 900
    THEN (IF level = "Low" THEN "Medium" ELSE level)
    ELSE level

\* Lines 418-422: an exceptional component lifts Low to Medium from 50 points.
UpgradeExceptional(level, overall_score, d) ==
    IF d.experience_score >= 900 \/ d.hard_skills_score >= 950 \/ d.education_score >= 900
    THEN (IF level = "Low" /\ overall_score >= UpgradeFloor THEN "Medium" ELSE level)
    ELSE level

\* Lines 425-427: low confidence takes High down to Medium.
DowngradeConfidence(level, d) ==
    IF d.overall_confidence < 600
    THEN (IF level = "High" THEN "Medium" ELSE level)
    ELSE level

\* _determine_suitability with the upgrade applied before the downgrade of
\* rule 1: the variant C6 has to tell from the code.
determine_suitability_upgrade_first(overall_score, d) ==
    LET s0 == BaseSuitability(overall_score)
        s1 == UpgradeExceptional(s0, overall_score, d)
        s2 == DowngradeMissing(s1, d)
        s3 == DowngradeConfidence(s2, d)
    IN  s3

\* _determine_suitability; overall_score is the unrounded score.
determine_suitability(overall_score, d) ==
    LET s0 == BaseSuitability(overall_score)
        s1 == DowngradeMissing(s0, d)
        s2 == UpgradeExceptional(s1, overall_score, d)
        s3 == DowngradeConfidence(s2, d)
    IN  s3

\* _calculate_confidence_level over four factors, the work-experience factor
\* left out of the list of lines 434-440.
calculate_confidence_level_four_factors(pr, d) ==
    LET r == Max(d.skills_required_count, 1)
        total == (d.parsing_confidence + d.matching_confidence
                    + (IF pr.email THEN 1000 ELSE 500)) * r
                 + 1000 * Min(d.skills_matched_count, r)
    IN  IF total >= 3200 * r THEN "high"
        ELSE IF total >= 2400 * r THEN "medium"
        ELSE "low"

\* _calculate_confidence_level with the work-experience factor turned round
\* (0.3 with work experience, 1.0 without): the variant C11 has to tell from
\* the code.
calculate_confidence_level_work_inverted(pr, d) ==
    LET r == Max(d.skills_required_count, 1)
        total == (d.parsing_confidence + d.matching_confidence
                    + (IF pr.email THEN 1000 ELSE 500)
                    + (IF pr.work_experience # <<>> THEN 300 ELSE 1000)) * r
                 + 1000 * Min(d.skills_matched_count, r)
    IN  IF total >= 4000 * r THEN "high"
        ELSE IF total >= 3000 * r THEN "medium"
        ELSE "low"

\* _calculate_confidence_level: the mean of five factors against 0.8 and 0.6,
\* compared after multiplying through by 5000 * max(required, 1).
calculate_confidence_level(pr, d) ==
    LET r == Max(d.skills_required_count, 1)
        total == (d.parsing_confidence + d.matching_confidence
                    + (IF pr.email THEN 1000 ELSE 500)
                    + (IF pr.work_experience # <<>> THEN 1000 ELSE 300)) * r
                 + 1000 * Min(d.skills_matched_count, r)
    IN  IF total >= 4000 * r THEN "high"
        ELSE IF total >= 3000 * r THEN "medium"
        ELSE "low"

\* The score as reported: round(overall_score, 1), in tenths of a point.
RoundedOverall(overall_score) == RoundDiv(overall_score, 1000)

\* calculate_comprehensive_score: the FinalScore.
calculate_comprehensive_score(pr, sp, sm, jd, w) ==
    LET c == ComponentScores(pr, sp, sm, jd)
        overall_score == WeightedOverall(c, w)
        detailed_scores == calculate_detailed_scores(pr, sp, sm, jd, c)
    IN  [status |-> "ok",
         overall_score |-> RoundedOverall(overall_score),
         detailed_scores |-> detailed_scores,
         suitability |-> determine_suitability(overall_score, detailed_scores),
         confidence_level |-> calculate_confidence_level(pr, detailed_scores)]

\* ------------------------------------------------------------------ inputs
\* All order-preserving sub-sequences of s.
RECURSIVE SubSeqs(_)
SubSeqs(s) ==
    IF s = <<>> THEN {<<>>}
    ELSE LET rest == SubSeqs(Tail(s))
         IN  rest \cup {<<Head(s)>> \o t : t \in rest}

\* All sequences without repetition over S of length at most n.
RECURSIVE SeqsNoRepeat(_, _)
SeqsNoRepeat(S, n) ==
    IF n = 0 THEN {<<>>}
    ELSE LET shorter == SeqsNoRepeat(S, n - 1)
         IN  shorter \cup UNION {{Append(t, x) : x \in S \ Range(t)} : t \in shorter}

\* SkillProfiles with at most n skills over the given bucket names.
SkillProfiles(tech, soft, domain, tools, n) ==
    {sp \in [technical_skills : SubSeqs(tech), soft_skills : SubSeqs(soft),
             domain_expertise : SubSeqs(domain), tools_platforms : SubSeqs(tools)] :
        Len(AllResumeSkills(sp)) <= n}

\* What the skill lists of a parsed JD look like: required skills in any order,
\* preferred skills among the languages and frameworks.
JdSkillLists(names, preferred, n) ==
    [required_skills : SeqsNoRepeat(names, n), preferred_skills : preferred]

\* The rest of a parsed JD as the scoring engine reads it.
JdScoringFields ==
    [required_experience_years : {NONE, 4},
     soft_keywords : {<<>>, <<"leadership", "analytical">>},
     required_level : {3},
     domain_keywords : {5}]

JdOf(skills, fields) ==
    [required_skills |-> skills.required_skills,
     preferred_skills |-> skills.preferred_skills,
     required_experience_years |-> fields.required_experience_years,
     soft_keywords |-> fields.soft_keywords,
     required_level |-> fields.required_level,
     domain_keywords |-> fields.domain_keywords]

StrongEntry == [title_relevance |-> 1000, industry_relevance |-> 900,
                description_relevance |-> 1000, recency_weight |-> 1000]
WeakEntry == [title_relevance |-> 500, industry_relevance |-> 400,
              description_relevance |-> 300, recency_weight |-> 700]

\* Parsed resumes as the scoring engine reads them.
ParsedResumes ==
    [total_experience_years : {NONE, 30},
     work_experience : {<<>>, <<WeakEntry, StrongEntry>>},
     education : {<<>>, <<[level |-> 4, keyword_hits |-> 4]>>},
     email : BOOLEAN,
     parsing_confidence : {0, 800}]

\* Weight sets a caller hands to the engine: the defaults, three sets that
\* validate() accepts and the set of the unit test that it rejects.
WeightSets ==
    {DefaultWeights,
     Weights(1000, 5, 0, 0, 0),
     Weights(0, 0, 500, 500, 0),
     Weights(0, 500, 500, 0, 0),
     Weights(500, 500, 500, 500, 500)}

\* Weight sets on both sides of the tolerance of validate().
WeightGrid ==
    {Weights(h, s, r[1], r[2], r[3]) :
        h \in {0, 335, 339, 340, 350, 360, 361, 500, 1000, 1200},
        s \in {0 - 200, 0, 5, 150, 500},
        r \in {<<250, 150, 100>>, <<0, 0, 0>>, <<500, 500, 500>>}}

\* The sentence transformer (loaded or not), the cosine it gives for the two
\* documents and the TF-IDF cosine of the two documents.
Backends ==
    [loaded : {TRUE}, emb : {0 - 50, 600}, tfidf : {0, 468}]
        \cup [loaded : {FALSE}, emb : {0}, tfidf : {0, 468}]

NoResult == [status |-> "none"]
NoTiers == [status |-> "none"]

\* The stages of _run_matching_pipeline in the order of its statements
\* (lines 105-146), and the ones that have returned when matching is called.
PipelineOrder == <<"extract_skills", "parse_jd", "match", "score", "feedback">>
BeforeMatching == <<"extract_skills", "parse_jd">>

\* Nothing computed, nothing stored and no error raised yet.
NoOutcome ==
    /\ semantic_match = NoResult
    /\ tiers = NoTiers
    /\ final_score = NoResult
    /\ feedback = "none"
    /\ db = "none"
    /\ error = "none"
    /\ tfidf_fitted = 0
    /\ ev = <<>>
    /\ text = [prefix |-> "", parts |-> <<>>]
    /\ nlp = FALSE
    /\ extracted_skills = <<>>
    /\ unique_skills = <<>>
    /\ component_score = NoResult
    /\ batch = NoResult
    /\ upload_dir = {}
    /\ resume_table = <<>>
    /\ next_resume_id = 1
    /\ http_response = "none"
    /\ tier_input = NoResult
    /\ tier_matches = <<>>
    /\ raw_resume = NoResult
    /\ structured_resume = NoResult
    /\ llm = "absent"
    /\ personalized_feedback = NoResult

InitResults ==
    /\ pc = "start"
    /\ done = BeforeMatching
    /\ NoOutcome

\* ---------------------------------------------------------------- actions
\* MatchingService._run_matching_pipeline, lines 125-128: the matcher runs on
\* the skill profile and the parsed JD.
MatchResumeToJd ==
    /\ pc = "start"
    /\ semantic_match' =
           [status |-> "ok"] @@ match_resume_to_jd(skill_profile, jd_parsed, backend)
    /\ tiers' = match_skills_comprehensive(
                    AllResumeSkills(skill_profile),
                    jd_parsed.required_skills \o jd_parsed.preferred_skills,
                    backend.loaded)
    /\ pc' = "matched"
    /\ done' = Append(done, "match")
    /\ UNCHANGED <<skill_profile, jd_parsed, parsed_resume, weights, backend, final_score,
                   feedback, db, error>>
    /\ UNCHANGED <<tfidf_fitted, ev, text, nlp, extracted_skills, unique_skills, component_score>>
    /\ UNCHANGED <<llm, personalized_feedback>>
    /\ UNCHANGED <<raw_resume, structured_resume>>
    /\ UNCHANGED <<tier_input, tier_matches>>
    /\ UNCHANGED <<upload_dir, resume_table, next_resume_id, http_response>>
    /\ UNCHANGED <<batch>>

\* Lines 130-136 with weights that validate() rejects: the engine's constructor
\* raises and the pipeline ends without a score; evaluate_resume_against_job
\* turns the exception into an HTTPException (lines 91-96).
RejectWeights ==
    /\ pc = "matched"
    /\ ~validate(weights)
    /\ final_score' = [status |-> "InvalidWeights"]
    /\ pc' = "failed"
    /\ error' = "HTTP_500"
    /\ UNCHANGED <<skill_profile, jd_parsed, parsed_resume, weights, backend,
                   semantic_match, tiers, done, feedback, db>>
    /\ UNCHANGED <<tfidf_fitted, ev, text, nlp, extracted_skills, unique_skills, component_score>>
    /\ UNCHANGED <<llm, personalized_feedback>>
    /\ UNCHANGED <<raw_resume, structured_resume>>
    /\ UNCHANGED <<tier_input, tier_matches>>
    /\ UNCHANGED <<upload_dir, resume_table, next_resume_id, http_response>>
    /\ UNCHANGED <<batch>>

\* Lines 130-141 with weights that validate() accepts: the engine is built and
\* calculate_comprehensive_score returns the FinalScore.
Score ==
    /\ pc = "matched"
    /\ validate(weights)
    /\ final_score' = calculate_comprehensive_score(
                          parsed_resume, skill_profile, semantic_match, jd_parsed, weights)
    /\ pc' = "scored"
    /\ done' = Append(done, "score")
    /\ UNCHANGED <<skill_profile, jd_parsed, parsed_resume, weights, backend,
                   semantic_match, tiers, feedback, db, error>>
    /\ UNCHANGED <<tfidf_fitted, ev, text, nlp, extracted_skills, unique_skills, component_score>>
    /\ UNCHANGED <<llm, personalized_feedback>>
    /\ UNCHANGED <<raw_resume, structured_resume>>
    /\ UNCHANGED <<tier_input, tier_matches>>
    /\ UNCHANGED <<upload_dir, resume_table, next_resume_id, http_response>>
    /\ UNCHANGED <<batch>>

Next == MatchResumeToJd \/ RejectWeights \/ Score

\* One evaluation, the scoring inputs drawn widely and the skill lists from a
\* few names.
Init ==
    /\ skill_profile \in SkillProfiles(<<"python">>, <<"leadership">>, <<>>, <<"aws">>,
                                       MaxResumeSkills)
    /\ \E skills \in JdSkillLists({"Python", "AWS", "scipy"}, {<<>>}, MaxRequired),
          fields \in JdScoringFields :
            jd_parsed = JdOf(skills, fields)
    /\ parsed_resume \in ParsedResumes
    /\ weights \in WeightSets
    /\ backend \in {b \in Backends : b.emb \in {0, 600} /\ b.tfidf = 468}
    /\ InitResults

Spec == Init /\ [][Next]_vars

\* One evaluation, the skill lists drawn widely and the scoring inputs fixed.
InitMatch ==
    /\ skill_profile \in SkillProfiles(TechnicalNames, SoftNames, DomainNames, ToolNames,
                                       MaxResumeSkills)
    /\ \E skills \in JdSkillLists(JdNames, {<<>>, <<"Python">>, <<"scipy">>}, MaxRequired) :
            jd_parsed = JdOf(skills, [required_experience_years |-> NONE,
                                      soft_keywords |-> <<>>,
                                      required_level |-> 3,
                                      domain_keywords |-> 0])
    /\ parsed_resume = [total_experience_years |-> 30,
                        work_experience |-> <<StrongEntry>>,
                        education |-> <<[level |-> 4, keyword_hits |-> 4]>>,
                        email |-> TRUE,
                        parsing_confidence |-> 800]
    /\ weights \in {DefaultWeights, Weights(500, 500, 500, 500, 500)}
    /\ backend \in Backends
    /\ InitResults

SpecMatch == InitMatch /\ [][Next]_vars

\* One evaluation, the weights drawn on both sides of the tolerance.
InitWeights ==
    /\ skill_profile = [technical_skills |-> <<"python">>, soft_skills |-> <<"leadership">>,
                        domain_expertise |-> <<>>, tools_platforms |-> <<"aws">>]
    /\ jd_parsed = JdOf([required_skills |-> <<"Python", "AWS">>, preferred_skills |-> <<>>],
                        [required_experience_years |-> NONE, soft_keywords |-> <<>>,
                         required_level |-> 3, domain_keywords |-> 0])
    /\ parsed_resume = [total_experience_years |-> 30,
                        work_experience |-> <<StrongEntry>>,
                        education |-> <<[level |-> 4, keyword_hits |-> 4]>>,
                        email |-> TRUE,
                        parsing_confidence |-> 800]
    /\ weights \in WeightGrid
    /\ backend = [loaded |-> TRUE, emb |-> 600, tfidf |-> 468]
    /\ InitResults

SpecWeights == InitWeights /\ [][Next]_vars

\* ---------------------------------------------------------------- service
\* ReadyFor letting feedback generation run once matching has returned: the
\* variant C14 has to tell from the code.
ReadyFor_feedback_early(stage, p) ==
    CASE stage = "extract_skills" -> p = "received"
      [] stage = "parse_jd" -> p = "extracted"
      [] stage = "feedback" -> p \in {"matched", "scored"}
      [] OTHER -> FALSE

\* Where the control of _run_matching_pipeline stands when a stage is called:
\* the statements run in the order of lines 105-146, each call returning
\* before the next is made.
ReadyFor(stage, p) ==
    CASE stage = "extract_skills" -> p = "received"
      [] stage = "parse_jd" -> p = "extracted"
      [] stage = "feedback" -> p = "scored"
      [] OTHER -> FALSE

\* Lines 105-109: the stored resume is deserialized and the skill extractor
\* returns the skill profile of its text.
ExtractSkills ==
    /\ ReadyFor("extract_skills", pc)
    /\ skill_profile' \in SkillProfiles(<<"python">>, <<"leadership">>, <<>>, <<"aws">>, 2)
    /\ pc' = "extracted"
    /\ done' = Append(done, "extract_skills")
    /\ UNCHANGED <<jd_parsed, parsed_resume, weights, backend, semantic_match, tiers,
                   final_score, feedback, db, error>>
    /\ UNCHANGED <<tfidf_fitted, ev, text, nlp, extracted_skills, unique_skills, component_score>>
    /\ UNCHANGED <<llm, personalized_feedback>>
    /\ UNCHANGED <<raw_resume, structured_resume>>
    /\ UNCHANGED <<tier_input, tier_matches>>
    /\ UNCHANGED <<upload_dir, resume_table, next_resume_id, http_response>>
    /\ UNCHANGED <<batch>>

\* Lines 111-120: the JD parser returns the parsed job description.
ParseJd ==
    /\ ReadyFor("parse_jd", pc)
    /\ \E skills \in JdSkillLists({"Python", "scipy"}, {<<>>}, 1) :
          jd_parsed' = JdOf(skills, [required_experience_years |-> NONE,
                                     soft_keywords |-> <<>>,
                                     required_level |-> 3,
                                     domain_keywords |-> 0])
    /\ pc' = "start"
    /\ done' = Append(done, "parse_jd")
    /\ UNCHANGED <<skill_profile, parsed_resume, weights, backend, semantic_match, tiers,
                   final_score, feedback, db, error>>
    /\ UNCHANGED <<tfidf_fitted, ev, text, nlp, extracted_skills, unique_skills, component_score>>
    /\ UNCHANGED <<llm, personalized_feedback>>
    /\ UNCHANGED <<raw_resume, structured_resume>>
    /\ UNCHANGED <<tier_input, tier_matches>>
    /\ UNCHANGED <<upload_dir, resume_table, next_resume_id, http_response>>
    /\ UNCHANGED <<batch>>

\* Lines 143-146: the feedback generator returns the feedback.
GenerateFeedback ==
    /\ ReadyFor("feedback", pc)
    /\ feedback' = "generated"
    /\ pc' = "feedback_done"
    /\ done' = Append(done, "feedback")
    /\ UNCHANGED <<skill_profile, jd_parsed, parsed_resume, weights, backend,
                   semantic_match, tiers, final_score, db, error>>
    /\ UNCHANGED <<tfidf_fitted, ev, text, nlp, extracted_skills, unique_skills, component_score>>
    /\ UNCHANGED <<llm, personalized_feedback>>
    /\ UNCHANGED <<raw_resume, structured_resume>>
    /\ UNCHANGED <<tier_input, tier_matches>>
    /\ UNCHANGED <<upload_dir, resume_table, next_resume_id, http_response>>
    /\ UNCHANGED <<batch>>

\* A stage raises instead of returning: the exception leaves
\* _run_matching_pipeline and the handler of lines 91-96 raises the
\* HTTPException.
StageRaises ==
    /\ pc \in {"received", "extracted", "start", "matched", "scored"}
    /\ pc' = "failed"
    /\ error' = "HTTP_500"
    /\ UNCHANGED <<skill_profile, jd_parsed, parsed_resume, weights, backend,
                   semantic_match, tiers, final_score, done, feedback, db>>
    /\ UNCHANGED <<tfidf_fitted, ev, text, nlp, extracted_skills, unique_skills, component_score>>
    /\ UNCHANGED <<llm, personalized_feedback>>
    /\ UNCHANGED <<raw_resume, structured_resume>>
    /\ UNCHANGED <<tier_input, tier_matches>>
    /\ UNCHANGED <<upload_dir, resume_table, next_resume_id, http_response>>
    /\ UNCHANGED <<batch>>

\* The record added while the pipeline had only scored: the variant C13 has to
\* tell from the code.
AddRecord_before_feedback ==
    /\ pc \in {"scored", "feedback_done"}
    /\ db' = "added"
    /\ pc' = "added"
    /\ UNCHANGED <<skill_profile, jd_parsed, parsed_resume, weights, backend,
                   semantic_match, tiers, final_score, done, feedback, error>>
    /\ UNCHANGED <<tfidf_fitted, ev, text, nlp, extracted_skills, unique_skills, component_score>>
    /\ UNCHANGED <<llm, personalized_feedback>>
    /\ UNCHANGED <<raw_resume, structured_resume>>
    /\ UNCHANGED <<tier_input, tier_matches>>
    /\ UNCHANGED <<upload_dir, resume_table, next_resume_id, http_response>>
    /\ UNCHANGED <<batch>>

\* Lines 60-84: the pipeline has returned; the ResumeEvaluation is built and
\* added to the session.
AddRecord ==
    /\ pc = "feedback_done"
    /\ db' = "added"
    /\ pc' = "added"
    /\ UNCHANGED <<skill_profile, jd_parsed, parsed_resume, weights, backend,
                   semantic_match, tiers, final_score, done, feedback, error>>
    /\ UNCHANGED <<tfidf_fitted, ev, text, nlp, extracted_skills, unique_skills, component_score>>
    /\ UNCHANGED <<llm, personalized_feedback>>
    /\ UNCHANGED <<raw_resume, structured_resume>>
    /\ UNCHANGED <<tier_input, tier_matches>>
    /\ UNCHANGED <<upload_dir, resume_table, next_resume_id, http_response>>
    /\ UNCHANGED <<batch>>

\* Line 85: db.commit().
Commit ==
    /\ pc = "added"
    /\ db' = "committed"
    /\ pc' = "committed"
    /\ UNCHANGED <<skill_profile, jd_parsed, parsed_resume, weights, backend,
                   semantic_match, tiers, final_score, done, feedback, error>>
    /\ UNCHANGED <<tfidf_fitted, ev, text, nlp, extracted_skills, unique_skills, component_score>>
    /\ UNCHANGED <<llm, personalized_feedback>>
    /\ UNCHANGED <<raw_resume, structured_resume>>
    /\ UNCHANGED <<tier_input, tier_matches>>
    /\ UNCHANGED <<upload_dir, resume_table, next_resume_id, http_response>>
    /\ UNCHANGED <<batch>>

\* Lines 86-89: db.refresh() and the return of the evaluation.
ReturnEvaluation ==
    /\ pc = "committed"
    /\ pc' = "returned"
    /\ UNCHANGED <<skill_profile, jd_parsed, parsed_resume, weights, backend,
                   semantic_match, tiers, final_score, done, feedback, db, error>>
    /\ UNCHANGED <<tfidf_fitted, ev, text, nlp, extracted_skills, unique_skills, component_score>>
    /\ UNCHANGED <<llm, personalized_feedback>>
    /\ UNCHANGED <<raw_resume, structured_resume>>
    /\ UNCHANGED <<tier_input, tier_matches>>
    /\ UNCHANGED <<upload_dir, resume_table, next_resume_id, http_response>>
    /\ UNCHANGED <<batch>>

\* Building the record, db.add, db.commit or db.refresh raises: the same
\* handler raises the HTTPException; the session is left as it is.
DatabaseRaises ==
    /\ pc \in {"feedback_done", "added", "committed"}
    /\ pc' = "failed"
    /\ error' = "HTTP_500"
    /\ UNCHANGED <<skill_profile, jd_parsed, parsed_resume, weights, backend,
                   semantic_match, tiers, final_score, done, feedback, db>>
    /\ UNCHANGED <<tfidf_fitted, ev, text, nlp, extracted_skills, unique_skills, component_score>>
    /\ UNCHANGED <<llm, personalized_feedback>>
    /\ UNCHANGED <<raw_resume, structured_resume>>
    /\ UNCHANGED <<tier_input, tier_matches>>
    /\ UNCHANGED <<upload_dir, resume_table, next_resume_id, http_response>>
    /\ UNCHANGED <<batch>>

NextService ==
    \/ ExtractSkills \/ ParseJd \/ MatchResumeToJd \/ RejectWeights \/ Score
    \/ GenerateFeedback \/ StageRaises
    \/ AddRecord \/ Commit \/ ReturnEvaluation \/ DatabaseRaises

\* One call of evaluate_resume_against_job on a stored, processed resume.
InitService ==
    /\ pc = "received"
    /\ done = <<>>
    /\ skill_profile = NoResult
    /\ jd_parsed = NoResult
    /\ parsed_resume \in {pr \in ParsedResumes : pr.email /\ pr.parsing_confidence = 800}
    /\ weights \in {DefaultWeights, Weights(500, 500, 500, 500, 500)}
    /\ backend = [loaded |-> TRUE, emb |-> 600, tfidf |-> 468]
    /\ NoOutcome

SpecService == InitService /\ [][NextService]_vars

\* ---------------------------------------------------------- skill extractor
\* A term of the skill dictionary, or a word of a text, as its characters.
Chars(term) ==
    CASE term = "python"         -> <<"p", "y", "t", "h", "o", "n">>
      [] term = "py"             -> <<"p", "y">>
      [] term = "java"           -> <<"j", "a", "v", "a">>
      [] term = "javascript"     -> <<"j", "a", "v", "a", "s", "c", "r", "i", "p", "t">>
      [] term = "js"             -> <<"j", "s">>
      [] term = "r"              -> <<"r">>
      [] term = "r programming"  -> <<"r", " ", "p", "r", "o", "g", "r", "a", "m", "m", "i", "n", "g">>
      [] term = "docker"         -> <<"d", "o", "c", "k", "e", "r">>
      [] term = "gitlab"         -> <<"g", "i", "t", "l", "a", "b">>
      [] term = "gitlab ci"      -> <<"g", "i", "t", "l", "a", "b", " ", "c", "i">>
      [] term = "git"            -> <<"g", "i", "t">>
      [] term = "github"         -> <<"g", "i", "t", "h", "u", "b">>
      [] term = "used"           -> <<"u", "s", "e", "d">>
      [] term = "skills"         -> <<"s", "k", "i", "l", "l", "s">>
      [] OTHER -> <<>>

\* _load_skill_database: a part of the dictionary, in the order of the source
\* (category, canonical name, aliases).  It keeps the names that are
\* substrings of other names and the one term listed twice.
skill_database ==
    << [category |-> "programming_languages", skill |-> "python", aliases |-> <<"python", "py">>],
       [category |-> "programming_languages", skill |-> "java", aliases |-> <<"java">>],
       [category |-> "programming_languages", skill |-> "javascript", aliases |-> <<"javascript", "js">>],
       [category |-> "programming_languages", skill |-> "r", aliases |-> <<"r programming">>],
       [category |-> "cloud_platforms", skill |-> "docker", aliases |-> <<"docker">>],
       [category |-> "cloud_platforms", skill |-> "gitlab", aliases |-> <<"gitlab", "gitlab ci">>],
       [category |-> "devops_tools", skill |-> "git", aliases |-> <<"git", "github", "gitlab">>] >>

\* The assignments skill_lookup[term] = (skill, category) of lines 188-193, in
\* the order the loops make them: the name of a skill, then its aliases.
RECURSIVE LookupAssignments(_)
LookupAssignments(entries) ==
    IF entries = <<>> THEN <<>>
    ELSE LET e == Head(entries)
             own == <<[term |-> e.skill, name |-> e.skill, category |-> e.category]>>
             als == [i \in 1..Len(e.aliases) |-> [term |-> e.aliases[i], name |-> e.skill, category |-> e.category]]
         IN  own \o als \o LookupAssignments(Tail(entries))

\* The keys of skill_lookup in insertion order: a key assigned again keeps
\* its place.
RECURSIVE KeysInOrder(_, _)
KeysInOrder(assignments, seen) ==
    IF assignments = <<>> THEN <<>>
    ELSE IF Head(assignments).term \in seen THEN KeysInOrder(Tail(assignments), seen)
    ELSE <<Head(assignments).term>> \o KeysInOrder(Tail(assignments), seen \cup {Head(assignments).term})

LookupTerms == KeysInOrder(LookupAssignments(skill_database), {})

\* skill_lookup[term]: the value of the last assignment to the key.
skill_lookup(term) ==
    LET a == LookupAssignments(skill_database)
        last == CHOOSE i \in 1..Len(a) : a[i].term = term /\ \A j \in (i + 1)..Len(a) : a[j].term # term
    IN  [name |-> a[last].name, category |-> a[last].category]

InLookup(term) == term \in Range(LookupTerms)

\* Python's `term in text` and text.find(term) on character sequences.
OccursAt(term, chars, i) == i + Len(term) - 1 <= Len(chars) /\ SubSeq(chars, i, i + Len(term) - 1) = term

Contains(chars, term) == \E i \in 1..(Len(chars) + 1) : OccursAt(term, chars, i)

Find(chars, term) == CHOOSE i \in 1..(Len(chars) + 1) : OccursAt(term, chars, i) /\ \A j \in 1..(i - 1) : ~OccursAt(term, chars, j)

\* text.count(term): occurrences that do not overlap, from the left.
RECURSIVE CountFrom(_, _, _)
CountFrom(chars, term, i) ==
    IF i + Len(term) - 1 > Len(chars) THEN 0
    ELSE IF OccursAt(term, chars, i) THEN 1 + CountFrom(chars, term, i + Len(term))
    ELSE CountFrom(chars, term, i + 1)

Count(chars, term) == CountFrom(chars, term, 1)

RECURSIVE Join(_, _)
Join(parts, sep) ==
    IF parts = <<>> THEN <<>>
    ELSE IF Len(parts) = 1 THEN Chars(parts[1])
    ELSE Chars(parts[1]) \o <<sep>> \o Join(Tail(parts), sep)

\* A text: an optional lead-in ("used", "skills:") and a list of words or
\* phrases separated by commas.
RawChars(t) ==
    LET lead == CASE t.prefix = "used"    -> Chars("used") \o <<" ">>
                  [] t.prefix = "skills:" -> Chars("skills") \o <<":", " ">>
                  [] OTHER                -> <<>>
    IN  lead \o Join(t.parts, ",")

\* _preprocess_text, lines 229-241: the separators , ; | and bullets become
\* blanks (the other rewrites do not apply to the texts here: no ".js", "JS",
\* "HTML5" or "CSS3", no run of blanks).
_preprocess_text(chars) == [i \in 1..Len(chars) |-> IF chars[i] \in {",", ";", "|"} THEN " " ELSE chars[i]]

\* _calculate_dictionary_confidence, lines 406-422, in thousandths.
SkillSections == <<"skills">>

_calculate_dictionary_confidence(term, chars) ==
    LET count == Count(chars, term)
        repeated == IF count > 1 THEN Min(100 * (count - 1), 200) ELSE 0
        in_section == \E k \in 1..Len(SkillSections) :
                         /\ Contains(chars, Chars(SkillSections[k]))
                         /\ Contains(SubSeq(chars, Find(chars, Chars(SkillSections[k])), Len(chars)), term)
    IN  Min(800 + repeated + (IF in_section THEN 100 ELSE 0), 1000)

ExtractedSkill(name, category, confidence) == [name |-> name, category |-> category, confidence |-> confidence]

\* _extract_skills_dictionary, lines 243-261: every key of skill_lookup that
\* is a substring of the lower-cased text yields a candidate.
_extract_skills_dictionary(chars) ==
    LET hit(term) == Contains(chars, Chars(term))
        found == SelectSeq(LookupTerms, hit)
    IN  [i \in 1..Len(found) |->
            ExtractedSkill(skill_lookup(found[i]).name, skill_lookup(found[i]).category,
                           _calculate_dictionary_confidence(Chars(found[i]), chars))]

\* The words of the cleaned text that \b...\b can match: its parts, with the
\* lead-in word.
WordsOf(t) == (IF t.prefix = "used" THEN <<"used">> ELSE IF t.prefix = "skills:" THEN <<"skills">> ELSE <<>>) \o t.parts

\* _extract_skills_patterns, lines 263-310: the programming-language patterns
\* match whole words; every match whose name is a key of the lookup yields a
\* candidate of confidence 0.9 (no framework of the patterns is in the part
\* of the dictionary kept here).
ProgPatternNames == {"python", "java", "javascript"}

_extract_skills_patterns(t) ==
    LET matched(w) == w \in ProgPatternNames /\ InLookup(w)
        found == SelectSeq(WordsOf(t), matched)
    IN  [i \in 1..Len(found) |-> ExtractedSkill(skill_lookup(found[i]).name, skill_lookup(found[i]).category, 900)]

\* The text after the lead-in, as the patterns of _extract_skills_contextual
\* capture it from the cleaned text.
Captured(t) == _preprocess_text(Join(t.parts, ","))

TermOf(chars) == CHOOSE term \in Range(LookupTerms) : Chars(term) = chars

IsLookupKey(chars) == \E term \in Range(LookupTerms) : Chars(term) = chars

\* _extract_skills_contextual, lines 357-390: after "skills:" (second pattern)
\* or "used" (third pattern) the captured text, which holds no delimiter any
\* more, yields a candidate of confidence 0.80 when it is a key of the lookup.
_extract_skills_contextual(t) ==
    IF t.prefix # "" /\ IsLookupKey(Captured(t))
    THEN <<ExtractedSkill(skill_lookup(TermOf(Captured(t))).name, skill_lookup(TermOf(Captured(t))).category, 800)>>
    ELSE <<>>

\* The phrases spaCy can hand to _extract_skills_nlp as a noun chunk or as an
\* entity: the parts of the text.
Phrases(t) == {Chars(t.parts[i]) : i \in 1..Len(t.parts)}

RECURSIVE SetToSeq(_)
SetToSeq(S) == IF S = {} THEN <<>> ELSE LET x == CHOOSE y \in S : TRUE IN <<x>> \o SetToSeq(S \ {x})

\* _extract_skills_nlp, lines 312-355: a noun chunk of three characters or
\* more that is a key of the lookup yields a candidate of confidence 0.75, an
\* ORG or PRODUCT entity that is a key one of confidence 0.70.
_extract_skills_nlp(noun_chunks, ents) ==
    LET chunks == SetToSeq({p \in noun_chunks : Len(p) >= 3 /\ IsLookupKey(p)})
        named == SetToSeq({p \in ents : IsLookupKey(p)})
    IN  [i \in 1..Len(chunks) |-> ExtractedSkill(skill_lookup(TermOf(chunks[i])).name, skill_lookup(TermOf(chunks[i])).category, 750)]
        \o [i \in 1..Len(named) |-> ExtractedSkill(skill_lookup(TermOf(named[i])).name, skill_lookup(TermOf(named[i])).category, 700)]

\* The key of line 429.
DedupKey(skill) == <<Lower(skill.name), skill.category>>

\* A variant of the loop of lines 428-431 that keeps the first candidate of a
\* key whatever its confidence.
RECURSIVE _deduplicate_skills_keep_first(_, _)
_deduplicate_skills_keep_first(skills, skill_dict) ==
    IF skills = <<>> THEN skill_dict
    ELSE LET skill == Head(skills)
             known == \E i \in 1..Len(skill_dict) : DedupKey(skill_dict[i]) = DedupKey(skill)
         IN  _deduplicate_skills_keep_first(Tail(skills), IF known THEN skill_dict ELSE Append(skill_dict, skill))

\* _deduplicate_skills, lines 424-433: skill_dict keeps, per key, the first
\* candidate of the highest confidence; a key keeps its place in the dict.
RECURSIVE _deduplicate_skills(_, _)
_deduplicate_skills(skills, skill_dict) ==
    IF skills = <<>> THEN skill_dict
    ELSE LET skill == Head(skills)
             known == \E i \in 1..Len(skill_dict) : DedupKey(skill_dict[i]) = DedupKey(skill)
             at == CHOOSE i \in 1..Len(skill_dict) : DedupKey(skill_dict[i]) = DedupKey(skill)
             next_dict == IF ~known THEN Append(skill_dict, skill)
                          ELSE IF skill.confidence > skill_dict[at].confidence THEN [skill_dict EXCEPT ![at] = skill]
                          ELSE skill_dict
         IN  _deduplicate_skills(Tail(skills), next_dict)

\* extract_skills, lines 195-227, up to the deduplication: the candidates of
\* the four methods in the order they are collected.
Candidates(t, with_nlp, noun_chunks, ents) ==
    _extract_skills_dictionary(_preprocess_text(RawChars(t)))
        \o _extract_skills_patterns(t)
        \o (IF with_nlp THEN _extract_skills_nlp(noun_chunks, ents) ELSE <<>>)
        \o _extract_skills_contextual(t)

\* The texts: up to MaxParts terms of the dictionary after one of the lead-ins.
MaxParts == 2

TextTerms == {"python", "java", "javascript", "r", "docker", "gitlab", "gitlab ci", "git"}

Texts == [prefix : {"", "used", "skills:"}, parts : UNION {[1..n -> TextTerms] : n \in 1..MaxParts}]

\* extract_skills on one text; spaCy, when its model is loaded, reports any of
\* the phrases as noun chunks and any as entities.
ExtractFromText ==
    /\ pc = "text"
    /\ \E noun_chunks \in SUBSET Phrases(text), ents \in SUBSET Phrases(text) :
          /\ nlp \/ (noun_chunks = {} /\ ents = {})
          /\ extracted_skills' = Candidates(text, nlp, noun_chunks, ents)
          /\ unique_skills' = _deduplicate_skills(extracted_skills', <<>>)
    /\ pc' = "profiled"
    /\ UNCHANGED <<skill_profile, jd_parsed, parsed_resume, weights, backend,
                   semantic_match, tiers, final_score, done, feedback, db, error,
                   tfidf_fitted, ev, text, nlp, component_score>>
    /\ UNCHANGED <<llm, personalized_feedback>>
    /\ UNCHANGED <<raw_resume, structured_resume>>
    /\ UNCHANGED <<tier_input, tier_matches>>
    /\ UNCHANGED <<upload_dir, resume_table, next_resume_id, http_response>>
    /\ UNCHANGED <<batch>>

NextExtract == ExtractFromText

InitExtract ==
    /\ pc = "text"
    /\ done = <<>>
    /\ skill_profile = NoResult
    /\ jd_parsed = NoResult
    /\ parsed_resume = NoResult
    /\ weights = DefaultWeights
    /\ backend = [loaded |-> TRUE, emb |-> 600, tfidf |-> 468]
    /\ semantic_match = NoResult
    /\ tiers = NoTiers
    /\ final_score = NoResult
    /\ feedback = "none"
    /\ db = "none"
    /\ error = "none"
    /\ tfidf_fitted = 0
    /\ ev = <<>>
    /\ text \in Texts
    /\ nlp \in BOOLEAN
    /\ extracted_skills = <<>>
    /\ unique_skills = <<>>
    /\ component_score = NoResult
    /\ batch = NoResult
    /\ upload_dir = {}
    /\ resume_table = <<>>
    /\ next_resume_id = 1
    /\ http_response = "none"
    /\ tier_input = NoResult
    /\ tier_matches = <<>>
    /\ raw_resume = NoResult
    /\ structured_resume = NoResult
    /\ llm = "absent"
    /\ personalized_feedback = NoResult

SpecExtract == InitExtract /\ [][NextExtract]_vars

\* ------------------------------------------------------------ concurrency
\* Two evaluations on one MatchingService, hence on one SemanticMatcher and on
\* the one TfidfVectorizer its constructor builds (semantic_matcher.py lines
\* 44-48), scheduled as two workers.
Evaluations == {1, 2}

\* The two texts of an evaluation as TF-IDF sees them: the size of their
\* vocabulary and the cosine _calculate_tfidf_similarity returns for them when
\* the evaluation runs alone.
DocPairs ==
    {[n_features |-> 5, similarity |-> 468],
     [n_features |-> 5, similarity |-> 0],
     [n_features |-> 7, similarity |-> 250]}

\* Cosines of two texts with common terms under another fit's idf weights.
ForeignIdfSimilarities == {250, 468, 750}

\* What fit_transform of line 280 returns to evaluation e when the shared
\* vectorizer was last fitted on the texts of evaluation o.  Its own fit gives
\* the value of the run alone.  Another fit's idf vector of a different length
\* makes the transform raise, and the handler of lines 284-286 returns 0.0;
\* one of the same length weights the terms differently, which leaves a
\* cosine of 0 at 0 and moves any other.
TfidfOutcomes(e, o) ==
    IF o = e THEN {ev[e].docs.similarity}
    ELSE IF ev[e].docs.n_features # ev[o].docs.n_features THEN {0}
    ELSE IF ev[e].docs.similarity = 0 THEN {0}
    ELSE ForeignIdfSimilarities

\* Line 280, first half: fit_transform counts the terms of the two texts and
\* fits the vectorizer's idf weights on them (the vectorizer is self's).
FitTfidf(e) ==
    /\ ev # <<>>
    /\ ev[e].pc = "ready"
    /\ tfidf_fitted' = e
    /\ ev' = [ev EXCEPT ![e].pc = "fitted"]
    /\ UNCHANGED <<pc, skill_profile, jd_parsed, parsed_resume, weights, backend,
                   semantic_match, tiers, final_score, done, feedback, db, error,
                   text, nlp, extracted_skills, unique_skills, component_score>>
    /\ UNCHANGED <<llm, personalized_feedback>>
    /\ UNCHANGED <<raw_resume, structured_resume>>
    /\ UNCHANGED <<tier_input, tier_matches>>
    /\ UNCHANGED <<upload_dir, resume_table, next_resume_id, http_response>>
    /\ UNCHANGED <<batch>>

\* Lines 280-286, second half: fit_transform weights the counts with the
\* vectorizer's idf as it is now, and the cosine of the two rows is returned.
TransformTfidf(e) ==
    /\ ev # <<>>
    /\ ev[e].pc = "fitted"
    /\ \E v \in TfidfOutcomes(e, tfidf_fitted) :
          ev' = [ev EXCEPT ![e].pc = "done", ![e].text_similarity = v]
    /\ UNCHANGED <<pc, skill_profile, jd_parsed, parsed_resume, weights, backend,
                   semantic_match, tiers, final_score, done, feedback, db, error,
                   tfidf_fitted, text, nlp, extracted_skills, unique_skills, component_score>>
    /\ UNCHANGED <<llm, personalized_feedback>>
    /\ UNCHANGED <<raw_resume, structured_resume>>
    /\ UNCHANGED <<tier_input, tier_matches>>
    /\ UNCHANGED <<upload_dir, resume_table, next_resume_id, http_response>>
    /\ UNCHANGED <<batch>>

NextConcurrent == \E e \in Evaluations : FitTfidf(e) \/ TransformTfidf(e)

InitConcurrent ==
    /\ pc = "start"
    /\ done = BeforeMatching
    /\ skill_profile = NoResult
    /\ jd_parsed = NoResult
    /\ parsed_resume = NoResult
    /\ weights = DefaultWeights
    /\ backend = [loaded |-> TRUE, emb |-> 600, tfidf |-> 468]
    /\ semantic_match = NoResult
    /\ tiers = NoTiers
    /\ final_score = NoResult
    /\ feedback = "none"
    /\ db = "none"
    /\ error = "none"
    /\ tfidf_fitted = 0
    /\ ev \in [Evaluations -> [pc : {"ready"}, docs : DocPairs, text_similarity : {NONE}]]
    /\ text = [prefix |-> "", parts |-> <<>>]
    /\ nlp = FALSE
    /\ extracted_skills = <<>>
    /\ unique_skills = <<>>
    /\ component_score = NoResult
    /\ batch = NoResult
    /\ upload_dir = {}
    /\ resume_table = <<>>
    /\ next_resume_id = 1
    /\ http_response = "none"
    /\ tier_input = NoResult
    /\ tier_matches = <<>>
    /\ raw_resume = NoResult
    /\ structured_resume = NoResult
    /\ llm = "absent"
    /\ personalized_feedback = NoResult

SpecConcurrent == InitConcurrent /\ [][NextConcurrent]_vars

\* ------------------------------------------------------- component scores
\* _calculate_hard_skills_score on the result of the matcher (lines 117-121
\* of calculate_comprehensive_score).
HardSkillsScore ==
    /\ pc = "matched"
    /\ component_score' = [status |-> "ok", of |-> "hard_skills",
                           value |-> calculate_hard_skills_score(skill_profile, semantic_match, jd_parsed)]
    /\ pc' = "computed"
    /\ UNCHANGED <<skill_profile, jd_parsed, parsed_resume, weights, backend,
                   semantic_match, tiers, final_score, done, feedback, db, error,
                   tfidf_fitted, ev, text, nlp, extracted_skills, unique_skills>>
    /\ UNCHANGED <<llm, personalized_feedback>>
    /\ UNCHANGED <<raw_resume, structured_resume>>
    /\ UNCHANGED <<tier_input, tier_matches>>
    /\ UNCHANGED <<upload_dir, resume_table, next_resume_id, http_response>>
    /\ UNCHANGED <<batch>>

NextHardSkills == MatchResumeToJd \/ HardSkillsScore

\* Resumes and JDs for the hard-skills score: required skills with and
\* without the words that make a skill critical.
InitHardSkills ==
    /\ skill_profile \in SkillProfiles(<<"python", "docker">>, <<"leadership">>, <<"numpy">>,
                                       <<"aws">>, MaxResumeSkills)
    /\ \E skills \in JdSkillLists({"Python", "scipy", "Docker (must)", "SQL (required)"},
                                  {<<>>}, MaxRequired) :
            jd_parsed = JdOf(skills, [required_experience_years |-> NONE,
                                      soft_keywords |-> <<>>,
                                      required_level |-> 3,
                                      domain_keywords |-> 0])
    /\ parsed_resume = [total_experience_years |-> 30,
                        work_experience |-> <<StrongEntry>>,
                        education |-> <<[level |-> 4, keyword_hits |-> 4]>>,
                        email |-> TRUE,
                        parsing_confidence |-> 800]
    /\ weights = DefaultWeights
    /\ backend \in {b \in Backends : b.emb \in {0, 600} /\ b.tfidf = 468}
    /\ InitResults

SpecHardSkills == InitHardSkills /\ [][NextHardSkills]_vars

\* _calculate_years_experience_score on a parsed resume and a parsed JD.
YearsScore ==
    /\ pc = "start"
    /\ component_score' = [status |-> "ok", of |-> "years_experience",
                           value |-> calculate_years_experience_score(parsed_resume, jd_parsed)]
    /\ pc' = "computed"
    /\ UNCHANGED <<skill_profile, jd_parsed, parsed_resume, weights, backend,
                   semantic_match, tiers, final_score, done, feedback, db, error,
                   tfidf_fitted, ev, text, nlp, extracted_skills, unique_skills>>
    /\ UNCHANGED <<llm, personalized_feedback>>
    /\ UNCHANGED <<raw_resume, structured_resume>>
    /\ UNCHANGED <<tier_input, tier_matches>>
    /\ UNCHANGED <<upload_dir, resume_table, next_resume_id, http_response>>
    /\ UNCHANGED <<batch>>

NextYears == YearsScore

\* Candidate years in tenths of a year, required years as the JD gives them.
MaxCandidateYears == 80
MaxRequiredYears == 6

InitYears ==
    /\ skill_profile = [technical_skills |-> <<"python">>, soft_skills |-> <<>>,
                        domain_expertise |-> <<>>, tools_platforms |-> <<>>]
    /\ \E y \in {NONE} \cup 0..MaxRequiredYears :
            jd_parsed = JdOf([required_skills |-> <<"Python">>, preferred_skills |-> <<>>],
                             [required_experience_years |-> y,
                              soft_keywords |-> <<>>,
                              required_level |-> 3,
                              domain_keywords |-> 0])
    /\ \E c \in {NONE} \cup 0..MaxCandidateYears :
            parsed_resume = [total_experience_years |-> c,
                             work_experience |-> <<StrongEntry>>,
                             education |-> <<[level |-> 4, keyword_hits |-> 4]>>,
                             email |-> TRUE,
                             parsing_confidence |-> 800]
    /\ weights = DefaultWeights
    /\ backend = [loaded |-> TRUE, emb |-> 600, tfidf |-> 468]
    /\ InitResults

SpecYears == InitYears /\ [][NextYears]_vars

\* ------------------------------------------------------- feedback generator
\* The first n elements of a sequence (Python's s[:n]).
Take(s, n) == SubSeq(s, 1, Min(n, Len(s)))

\* A list with the elements whose condition holds, in the order given.
RECURSIVE Keep(_)
Keep(pairs) ==
    IF pairs = <<>> THEN <<>>
    ELSE (IF Head(pairs)[1] THEN <<Head(pairs)[2]>> ELSE <<>>) \o Keep(Tail(pairs))

\* _extract_top_strengths, lines 235-252 (detailed scores in tenths of a
\* point).
_extract_top_strengths(fs) ==
    LET d == fs.detailed_scores
        strengths == Keep(<< <<d.hard_skills_score >= 800, "strong technical skills">>,
                             <<d.experience_score >= 800, "relevant experience">>,
                             <<d.education_score >= 800, "solid educational background">>,
                             <<d.soft_skills_score >= 800, "good interpersonal skills">>,
                             <<d.semantic_match_score >= 800, "excellent job alignment">> >>)
    IN  IF strengths # <<>> THEN strengths ELSE <<"general qualifications">>

\* FinalScore.get_verdict_details()["action"], scoring_engine.py lines 71-90.
VerdictAction(suitability) ==
    CASE suitability = "High" -> "Recommend for interview"
      [] suitability = "Medium" -> "Consider for interview with skill assessment"
      [] OTHER -> "Consider only if few alternatives available"

\* _generate_template_assessment, lines 191-233: the text as the parts that
\* make it up: the opening of the tier with the score, the strengths named
\* (three for High, two otherwise), the gaps and the action of the verdict.
_generate_template_assessment(fs, key_strengths, key_gaps) ==
    LET tier == IF fs.suitability \in {"High", "Medium"} THEN fs.suitability ELSE "Low"
    IN  [source |-> "template",
         opening |-> tier,
         overall_score |-> fs.overall_score,
         strengths |-> Take(key_strengths, IF tier = "High" THEN 3 ELSE 2),
         gaps |-> key_gaps,
         action |-> VerdictAction(fs.suitability)]

\* _generate_overall_assessment without the except branch of lines 185-187:
\* a failed call leaves no assessment.
_generate_overall_assessment_no_fallback(fs, sm, l, response) ==
    LET key_strengths == _extract_top_strengths(fs)
        key_gaps == Take(sm.missing_skills, 3)
    IN  IF l = "working" THEN [source |-> "llm", text |-> response]
        ELSE IF l = "failing" THEN [source |-> "none"]
        ELSE _generate_template_assessment(fs, key_strengths, key_gaps)

\* _generate_overall_assessment, lines 160-189: the response of the chain when
\* there is an LLM and its call returns, the template when the call raises or
\* there is no LLM.
_generate_overall_assessment(fs, sm, l, response) ==
    LET key_strengths == _extract_top_strengths(fs)
        key_gaps == Take(sm.missing_skills, 3)
    IN  IF l = "working" THEN [source |-> "llm", text |-> response]
        ELSE _generate_template_assessment(fs, key_strengths, key_gaps)

HighConfidenceNames(sm) ==
    LET high == SelectSeq(sm.skill_matches, LAMBDA m : m.confidence >= 900)
    IN  [i \in 1..Min(3, Len(high)) |-> high[i].skill_name]

\* _identify_strengths, lines 254-297 (the parsed resumes here carry no
\* projects and no certifications).
_identify_strengths(pr, fs, sm) ==
    LET d == fs.detailed_scores
    IN  Take(Keep(<< <<d.technical_skills_score >= 700, <<"technical skill set", d.skills_matched_count>> >>,
                     <<d.years_experience_score >= 700,
                       <<"experience foundation", IF pr.total_experience_years = NONE THEN 0 ELSE pr.total_experience_years>> >>,
                     <<d.experience_relevance_score >= 700, <<"relevant work experience">> >>,
                     <<d.education_level_score >= 700, <<"educational credentials">> >>,
                     <<HighConfidenceNames(sm) # <<>>, <<"proficiency">> \o HighConfidenceNames(sm)>>,
                     <<sm.additional_skills # <<>>, <<"additional skills">> \o Take(sm.additional_skills, 3)>> >>), 6)

\* _identify_areas_for_improvement, lines 299-339.
_identify_areas_for_improvement(fs, sm) ==
    LET d == fs.detailed_scores
    IN  Take(Keep(<< <<d.hard_skills_score < 600, <<"technical skills development", Len(sm.missing_skills)>> >>,
                     <<d.experience_score < 600 /\ d.years_experience_score < 600, <<"additional years">> >>,
                     <<d.experience_score < 600 /\ d.experience_relevance_score < 600, <<"more relevant experience">> >>,
                     <<d.education_score < 600, <<"additional education">> >>,
                     <<sm.missing_skills # <<>>, <<"develop proficiency">> \o Take(sm.missing_skills, 3)>>,
                     <<d.soft_skills_score < 500, <<"soft skills">> >>,
                     <<d.overall_confidence < 700, <<"resume presentation">> >> >>), 5)

\* The required skills a certification is recommended for (lines 362-365).
IsVendorSkill(skill) == Lower(skill) \in {"aws"}

\* _generate_specific_recommendations, lines 341-376.
_generate_specific_recommendations(fs, sm, jd) ==
    LET top == Take(sm.missing_skills, 3)
        vendor == SelectSeq(jd.required_skills, IsVendorSkill)
    IN  Take([i \in 1..Len(top) |-> <<"develop", top[i]>>]
             \o Keep(<< <<fs.detailed_scores.experience_relevance_score < 700, <<"similar roles">> >>,
                        <<TRUE, <<"portfolio projects">> >>,
                        <<vendor # <<>>, <<"certification", IF vendor # <<>> THEN vendor[1] ELSE "">> >>,
                        <<TRUE, <<"professional communities">> >>,
                        <<fs.detailed_scores.overall_confidence < 800, <<"enhance resume">> >> >>), 6)

\* _analyze_skill_gaps, lines 378-408 (learning resources are one per
\* missing skill of the first three).
_analyze_skill_gaps(sm, jd) ==
    [critical_missing |-> SelectSeq(sm.missing_skills, LAMBDA x : x \in Range(jd.required_skills)),
     nice_to_have |-> SelectSeq(sm.missing_skills,
                                LAMBDA x : x \notin Range(jd.required_skills) /\ x \in Range(jd.preferred_skills)),
     learning_resources |-> Take(sm.missing_skills, 3),
     alternative_skills |-> Take(sm.additional_skills, 2)]

\* _generate_career_tips, lines 436-476 (a JD without title): the tip of the
\* experience band, the learning tip and the four general tips.
_generate_career_tips(pr, fs) ==
    LET exp_years == IF pr.total_experience_years = NONE THEN 0 ELSE pr.total_experience_years
    IN  Take(<<IF exp_years < 30 THEN "foundational experience"
               ELSE IF exp_years < 70 THEN "specialize" ELSE "mentor others">>
             \o Keep(<< <<fs.detailed_scores.technical_skills_score < 700, "continuous learning">> >>)
             \o <<"online presence", "conferences", "present your work", "find a mentor">>, 6)

\* _generate_interview_tips, lines 478-514 (a JD without title).
_generate_interview_tips(fs, sm) ==
    LET first == Take(sm.skill_matches, 3)
    IN  Take(Keep(<< <<fs.detailed_scores.hard_skills_score >= 700,
                       <<"emphasize">> \o [i \in 1..Len(first) |-> first[i].skill_name]>>,
                     <<fs.detailed_scores.experience_score >= 700, <<"work examples">> >>,
                     <<sm.missing_skills # <<>>, <<"approach learning">> \o Take(sm.missing_skills, 2)>> >>)
             \o << <<"research the company">>, <<"STAR method">>, <<"explain simply">>,
                   <<"thoughtful questions">>, <<"review your resume">> >>, 8)

\* generate_comprehensive_feedback, lines 119-158.
generate_comprehensive_feedback(pr, fs, sm, jd, l, response) ==
    [status |-> "ok",
     overall_assessment |-> _generate_overall_assessment(fs, sm, l, response),
     strengths |-> _identify_strengths(pr, fs, sm),
     areas_for_improvement |-> _identify_areas_for_improvement(fs, sm),
     specific_recommendations |-> _generate_specific_recommendations(fs, sm, jd),
     skill_gap_analysis |-> _analyze_skill_gaps(sm, jd),
     career_advancement_tips |-> _generate_career_tips(pr, fs),
     interview_preparation_tips |-> _generate_interview_tips(fs, sm),
     confidence_level |-> fs.confidence_level]

\* What the chain can answer.
LlmResponses == {"assessment a", "assessment b"}

\* The fifth stage of the pipeline (matching_service.py lines 139-146) on the
\* score of the fourth; the LLM, when there is one, answers or raises.
GenerateComprehensiveFeedback ==
    /\ pc = "scored"
    /\ \E response \in LlmResponses :
          personalized_feedback' = generate_comprehensive_feedback(
              parsed_resume, final_score, semantic_match, jd_parsed, llm, response)
    /\ pc' = "feedback_done"
    /\ done' = Append(done, "feedback")
    /\ feedback' = "generated"
    /\ UNCHANGED <<skill_profile, jd_parsed, parsed_resume, weights, backend,
                   semantic_match, tiers, final_score, db, error,
                   tfidf_fitted, ev, text, nlp, extracted_skills, unique_skills,
                   component_score, llm>>
    /\ UNCHANGED <<raw_resume, structured_resume>>
    /\ UNCHANGED <<tier_input, tier_matches>>
    /\ UNCHANGED <<upload_dir, resume_table, next_resume_id, http_response>>
    /\ UNCHANGED <<batch>>

NextFeedback == MatchResumeToJd \/ Score \/ GenerateComprehensiveFeedback

\* Evaluations under the default weights, with no LLM (no API key), with one
\* that answers and with one whose call raises.
InitFeedback ==
    /\ skill_profile \in SkillProfiles(<<"python">>, <<"leadership">>, <<>>, <<"aws">>,
                                       MaxResumeSkills)
    /\ \E skills \in JdSkillLists({"Python", "AWS", "scipy"}, {<<>>, <<"scipy">>}, MaxRequired),
          fields \in JdScoringFields :
            jd_parsed = JdOf(skills, fields)
    /\ parsed_resume \in {pr \in ParsedResumes : pr.email /\ pr.parsing_confidence = 800}
    /\ weights = DefaultWeights
    /\ backend = [loaded |-> TRUE, emb |-> 600, tfidf |-> 468]
    /\ pc = "start"
    /\ done = BeforeMatching
    /\ semantic_match = NoResult
    /\ tiers = NoTiers
    /\ final_score = NoResult
    /\ feedback = "none"
    /\ db = "none"
    /\ error = "none"
    /\ tfidf_fitted = 0
    /\ ev = <<>>
    /\ text = [prefix |-> "", parts |-> <<>>]
    /\ nlp = FALSE
    /\ extracted_skills = <<>>
    /\ unique_skills = <<>>
    /\ component_score = NoResult
    /\ batch = NoResult
    /\ upload_dir = {}
    /\ resume_table = <<>>
    /\ next_resume_id = 1
    /\ http_response = "none"
    /\ tier_input = NoResult
    /\ tier_matches = <<>>
    /\ raw_resume = NoResult
    /\ structured_resume = NoResult
    /\ llm \in {"absent", "working", "failing"}
    /\ personalized_feedback = NoResult

SpecFeedback == InitFeedback /\ [][NextFeedback]_vars

\* -------------------------------------------------------------- fuzzy tier
\* Skill names for the fuzzy tier: "C#" has ratio 100 with both "c++" and "c".
FuzzyResumeNames == {"c++", "c", "postgres", "python"}
FuzzyJdNames == {"C#", "Postgresql", "Python", "scipy"}

\* SemanticMatcher._fuzzy_match_skills(resume_skills, jd_skills) with the
\* default threshold.
FuzzyMatchSkills ==
    /\ pc = "fuzzy_start"
    /\ tier_matches' = fuzzy_match_skills(tier_input.resume_skills, tier_input.jd_skills)
    /\ pc' = "fuzzy_done"
    /\ UNCHANGED <<skill_profile, jd_parsed, parsed_resume, weights, backend,
                   semantic_match, tiers, final_score, done, feedback, db, error,
                   tfidf_fitted, ev, text, nlp, extracted_skills, unique_skills,
                   component_score, llm, personalized_feedback, raw_resume,
                   structured_resume, tier_input>>
    /\ UNCHANGED <<upload_dir, resume_table, next_resume_id, http_response>>
    /\ UNCHANGED <<batch>>

NextFuzzy == FuzzyMatchSkills

InitFuzzy ==
    /\ tier_input \in [resume_skills : SeqsNoRepeat(FuzzyResumeNames, MaxResumeSkills),
                       jd_skills : SeqsNoRepeat(FuzzyJdNames, MaxRequired)]
    /\ tier_matches = <<>>
    /\ pc = "fuzzy_start"
    /\ done = <<>>
    /\ skill_profile = NoResult
    /\ jd_parsed = NoResult
    /\ parsed_resume = NoResult
    /\ weights = DefaultWeights
    /\ backend = [loaded |-> TRUE, emb |-> 600, tfidf |-> 468]
    /\ semantic_match = NoResult
    /\ tiers = NoTiers
    /\ final_score = NoResult
    /\ feedback = "none"
    /\ db = "none"
    /\ error = "none"
    /\ tfidf_fitted = 0
    /\ ev = <<>>
    /\ text = [prefix |-> "", parts |-> <<>>]
    /\ nlp = FALSE
    /\ extracted_skills = <<>>
    /\ unique_skills = <<>>
    /\ component_score = NoResult
    /\ batch = NoResult
    /\ upload_dir = {}
    /\ resume_table = <<>>
    /\ next_resume_id = 1
    /\ http_response = "none"
    /\ llm = "absent"
    /\ personalized_feedback = NoResult
    /\ raw_resume = NoResult
    /\ structured_resume = NoResult

SpecFuzzy == InitFuzzy /\ [][NextFuzzy]_vars

\* ---------------------------------------------------------- resume service
\* Uploaded files: a filename and the content, named by its SHA-256 hash.
UploadFiles == [filename : {"cv.pdf", "cv.docx", "notes.txt", "cv.exe"}, content : {1, 2, 3}]

\* settings.allowed_extensions
AllowedFilenames == {"cv.pdf", "cv.docx", "notes.txt"}

\* FileHandler.validate_file (the files are all below max_file_size).
validate_file(file) == file.filename \in AllowedFilenames

\* The path FileHandler.save_file writes to: the secured name followed by the
\* first eight digits of the hash of the content.
SavePath(file) == [name |-> file.filename, hash8 |-> file.content]

\* _parse_resume_file: pdf, docx and doc are parsed, any other extension
\* raises ValueError.
ParseRaises(file) == file.filename \notin {"cv.pdf", "cv.docx"}

\* db.commit() of a new Resume: file_hash is a unique column (models.py line
\* 97), a second record of the same hash raises IntegrityError.
CommitRaises(table, file_hash) == \E i \in 1..Len(table) : table[i].file_hash = file_hash

MaxUploads == 3

\* ResumeService.upload_resume, lines 26-102.
UploadResume ==
    /\ pc = "serving"
    /\ next_resume_id <= MaxUploads
    /\ \E file \in UploadFiles :
          IF ~validate_file(file)
          THEN /\ http_response' = "HTTP_400"
               /\ UNCHANGED <<upload_dir, resume_table, next_resume_id>>
          ELSE LET file_path == SavePath(file)
                   saved == upload_dir \cup {file_path}
               IN  IF ParseRaises(file) \/ CommitRaises(resume_table, file.content)
                   THEN /\ upload_dir' = saved \ {file_path}
                        /\ http_response' = "HTTP_500"
                        /\ UNCHANGED <<resume_table, next_resume_id>>
                   ELSE /\ upload_dir' = saved
                        /\ resume_table' = Append(resume_table,
                                                  [id |-> next_resume_id, file_path |-> file_path,
                                                   file_hash |-> file.content])
                        /\ next_resume_id' = next_resume_id + 1
                        /\ http_response' = "created"
    /\ UNCHANGED <<pc, skill_profile, jd_parsed, parsed_resume, weights, backend,
                   semantic_match, tiers, final_score, done, feedback, db, error,
                   tfidf_fitted, ev, text, nlp, extracted_skills, unique_skills,
                   component_score, llm, personalized_feedback, raw_resume,
                   structured_resume, tier_input, tier_matches>>
    /\ UNCHANGED <<batch>>

\* ResumeService.delete_resume, lines 151-163; get_resume raises 404 for an
\* unknown id.
DeleteResume ==
    /\ pc = "serving"
    /\ \E resume_id \in 1..MaxUploads :
          IF \E i \in 1..Len(resume_table) : resume_table[i].id = resume_id
          THEN LET resume == resume_table[CHOOSE i \in 1..Len(resume_table) :
                                              resume_table[i].id = resume_id]
               IN  /\ upload_dir' = upload_dir \ {resume.file_path}
                   /\ resume_table' = SelectSeq(resume_table, LAMBDA r : r.id # resume_id)
                   /\ http_response' = IF resume.file_path \in upload_dir
                                  THEN "deleted" ELSE "not_deleted"
          ELSE /\ http_response' = "HTTP_404"
               /\ UNCHANGED <<upload_dir, resume_table>>
    /\ UNCHANGED <<pc, skill_profile, jd_parsed, parsed_resume, weights, backend,
                   semantic_match, tiers, final_score, done, feedback, db, error,
                   tfidf_fitted, ev, text, nlp, extracted_skills, unique_skills,
                   component_score, llm, personalized_feedback, raw_resume,
                   structured_resume, tier_input, tier_matches, next_resume_id>>
    /\ UNCHANGED <<batch>>

NextResumes == UploadResume \/ DeleteResume

InitResumes ==
    /\ upload_dir = {}
    /\ resume_table = <<>>
    /\ next_resume_id = 1
    /\ http_response = "none"
    /\ pc = "serving"
    /\ done = <<>>
    /\ skill_profile = NoResult
    /\ jd_parsed = NoResult
    /\ parsed_resume = NoResult
    /\ weights = DefaultWeights
    /\ backend = [loaded |-> TRUE, emb |-> 600, tfidf |-> 468]
    /\ semantic_match = NoResult
    /\ tiers = NoTiers
    /\ final_score = NoResult
    /\ feedback = "none"
    /\ db = "none"
    /\ error = "none"
    /\ tfidf_fitted = 0
    /\ ev = <<>>
    /\ text = [prefix |-> "", parts |-> <<>>]
    /\ nlp = FALSE
    /\ extracted_skills = <<>>
    /\ unique_skills = <<>>
    /\ component_score = NoResult
    /\ batch = NoResult
    /\ llm = "absent"
    /\ personalized_feedback = NoResult
    /\ raw_resume = NoResult
    /\ structured_resume = NoResult
    /\ tier_input = NoResult
    /\ tier_matches = <<>>

SpecResumes == InitResumes /\ [][NextResumes]_vars

\* -------------------------------------------------------- batch evaluation
MaxBatch == 3

\* What evaluate_resume_against_job does for one element of resume_ids: it
\* returns an evaluation, or it raises HTTPException 404 (unknown resume) or
\* 500 (error in the pipeline).
EvaluationOutcomes == {"ok", "HTTP_404", "HTTP_500"}

\* The except branch of the loop, lines 180-183, if it ended the loop instead
\* of continuing: the variant C29 has to tell from the code.
batch_on_error_stop(b) ==
    [b EXCEPT !.attempted = Append(b.attempted, b.resume_ids[b.position]),
              !.position = Len(b.resume_ids) + 1]

\* The except branch of the loop, lines 180-183: the error is logged and the
\* loop continues with the next id.
batch_on_error(b) ==
    [b EXCEPT !.attempted = Append(b.attempted, b.resume_ids[b.position]),
              !.position = b.position + 1]

\* Lines 175-179: the evaluation of the next id succeeds and is appended.
BatchEvaluateNext ==
    /\ pc = "batch_running"
    /\ batch.position <= Len(batch.resume_ids)
    /\ batch.outcomes[batch.position] = "ok"
    /\ batch' = [batch EXCEPT !.attempted = Append(batch.attempted, batch.resume_ids[batch.position]),
                              !.evaluations = Append(batch.evaluations,
                                                     [resume_id |-> batch.resume_ids[batch.position],
                                                      element |-> batch.position]),
                              !.position = batch.position + 1]
    /\ UNCHANGED <<pc, skill_profile, jd_parsed, parsed_resume, weights, backend,
                   semantic_match, tiers, final_score, done, feedback, db, error,
                   tfidf_fitted, ev, text, nlp, extracted_skills, unique_skills,
                   component_score, llm, personalized_feedback, raw_resume,
                   structured_resume, tier_input, tier_matches, upload_dir,
                   resume_table, next_resume_id, http_response>>

\* Lines 175-183: the evaluation of the next id raises.
BatchEvaluationFails ==
    /\ pc = "batch_running"
    /\ batch.position <= Len(batch.resume_ids)
    /\ batch.outcomes[batch.position] # "ok"
    /\ batch' = batch_on_error(batch)
    /\ UNCHANGED <<pc, skill_profile, jd_parsed, parsed_resume, weights, backend,
                   semantic_match, tiers, final_score, done, feedback, db, error,
                   tfidf_fitted, ev, text, nlp, extracted_skills, unique_skills,
                   component_score, llm, personalized_feedback, raw_resume,
                   structured_resume, tier_input, tier_matches, upload_dir,
                   resume_table, next_resume_id, http_response>>

\* Line 185: the loop is over and the list is returned.
BatchReturn ==
    /\ pc = "batch_running"
    /\ batch.position > Len(batch.resume_ids)
    /\ batch' = [batch EXCEPT !.returned = batch.evaluations]
    /\ pc' = "batch_returned"
    /\ UNCHANGED <<skill_profile, jd_parsed, parsed_resume, weights, backend,
                   semantic_match, tiers, final_score, done, feedback, db, error,
                   tfidf_fitted, ev, text, nlp, extracted_skills, unique_skills,
                   component_score, llm, personalized_feedback, raw_resume,
                   structured_resume, tier_input, tier_matches, upload_dir,
                   resume_table, next_resume_id, http_response>>

NextBatch == BatchEvaluateNext \/ BatchEvaluationFails \/ BatchReturn

InitBatch ==
    /\ \E n \in 0..MaxBatch :
          \E ids \in [1..n -> {1, 2}], outcomes \in [1..n -> EvaluationOutcomes] :
              batch = [resume_ids |-> ids, outcomes |-> outcomes, position |-> 1,
                       attempted |-> <<>>, evaluations |-> <<>>, returned |-> <<>>]
    /\ pc = "batch_running"
    /\ done = <<>>
    /\ skill_profile = NoResult
    /\ jd_parsed = NoResult
    /\ parsed_resume = NoResult
    /\ weights = DefaultWeights
    /\ backend = [loaded |-> TRUE, emb |-> 600, tfidf |-> 468]
    /\ semantic_match = NoResult
    /\ tiers = NoTiers
    /\ final_score = NoResult
    /\ feedback = "none"
    /\ db = "none"
    /\ error = "none"
    /\ tfidf_fitted = 0
    /\ ev = <<>>
    /\ text = [prefix |-> "", parts |-> <<>>]
    /\ nlp = FALSE
    /\ extracted_skills = <<>>
    /\ unique_skills = <<>>
    /\ component_score = NoResult
    /\ llm = "absent"
    /\ personalized_feedback = NoResult
    /\ raw_resume = NoResult
    /\ structured_resume = NoResult
    /\ tier_input = NoResult
    /\ tier_matches = <<>>
    /\ upload_dir = {}
    /\ resume_table = <<>>
    /\ next_resume_id = 1
    /\ http_response = "none"

SpecBatch == InitBatch /\ [][NextBatch]_vars

\* ------------------------------------------------------------ resume parser
\* An entry of the experience section: the length of its stripped text and the
\* title and company _parse_experience_entry reads from its first line ("" when
\* it finds none).  "Dev at IBM" has 10 characters, a title and a company; a
\* single long word has neither.
WorkEntryTexts == [length : {10, 21, 40}, title : {"", "Dev"}, company : {"", "IBM"}]

\* An entry of the education section: its length and the degree and institution
\* _parse_education_entry reads ("" for None).  "MBA" has 3 characters and a
\* degree.
EducationEntryTexts == [length : {3, 11, 30}, degree : {"", "Mba"}, institution : {"", "Stanford University"}]

\* _extract_work_experience, lines 395-412, on a text with its line breaks:
\* entries of more than 20 characters are parsed and kept when both title and
\* company are non-empty.
_extract_work_experience(entries) ==
    SelectSeq(entries, LAMBDA e : e.length > 20 /\ e.title # "" /\ e.company # "")

\* _extract_education, lines 324-341: entries of more than 10 characters are
\* parsed and kept when a degree or an institution is set.
_extract_education(entries) ==
    SelectSeq(entries, LAMBDA e : e.length > 10 /\ (e.degree # "" \/ e.institution # ""))

\* _clean_text, lines 232-237: every run of whitespace, line breaks included,
\* becomes one blank, so the cleaned text is a single line and
\* _extract_section (lines 563-586) finds no line after a header: no entry is
\* left for the two extractors.
_clean_text(entries) == <<>>

\* The fields of the ParsedResume the claims are about.
ParsedResume(work_experience, education, parsing_confidence) ==
    [status |-> "ok", work_experience |-> work_experience, education |-> education,
     parsing_confidence |-> parsing_confidence]

\* _parse_text_content, lines 198-230.
_parse_text_content(raw, parsing_confidence) ==
    ParsedResume(_extract_work_experience(_clean_text(raw.work)),
                 _extract_education(_clean_text(raw.education)),
                 parsing_confidence)

\* parse_pdf / parse_docx / parse_text: the text and its confidence go through
\* _parse_text_content.
ParseTextContent ==
    /\ pc = "raw"
    /\ structured_resume' = _parse_text_content(raw_resume, raw_resume.parsing_confidence)
    /\ pc' = "parsed"
    /\ UNCHANGED <<skill_profile, jd_parsed, parsed_resume, weights, backend,
                   semantic_match, tiers, final_score, done, feedback, db, error,
                   tfidf_fitted, ev, text, nlp, extracted_skills, unique_skills,
                   component_score, llm, personalized_feedback, raw_resume>>
    /\ UNCHANGED <<tier_input, tier_matches>>
    /\ UNCHANGED <<upload_dir, resume_table, next_resume_id, http_response>>
    /\ UNCHANGED <<batch>>

\* The two extractors called on the text as it is, line breaks kept (the calls
\* of the unit tests).
ExtractEntries ==
    /\ pc = "raw"
    /\ structured_resume' = ParsedResume(_extract_work_experience(raw_resume.work),
                                         _extract_education(raw_resume.education),
                                         raw_resume.parsing_confidence)
    /\ pc' = "entries_extracted"
    /\ UNCHANGED <<skill_profile, jd_parsed, parsed_resume, weights, backend,
                   semantic_match, tiers, final_score, done, feedback, db, error,
                   tfidf_fitted, ev, text, nlp, extracted_skills, unique_skills,
                   component_score, llm, personalized_feedback, raw_resume>>
    /\ UNCHANGED <<tier_input, tier_matches>>
    /\ UNCHANGED <<upload_dir, resume_table, next_resume_id, http_response>>
    /\ UNCHANGED <<batch>>

NextParse == ParseTextContent \/ ExtractEntries

MaxWorkEntries == 2

InitParse ==
    /\ raw_resume \in [work : UNION {[1..n -> WorkEntryTexts] : n \in 0..MaxWorkEntries},
                       education : UNION {[1..n -> EducationEntryTexts] : n \in 0..1},
                       parsing_confidence : {0, 730, 1000}]
    /\ structured_resume = NoResult
    /\ pc = "raw"
    /\ done = <<>>
    /\ skill_profile = NoResult
    /\ jd_parsed = NoResult
    /\ parsed_resume = NoResult
    /\ weights = DefaultWeights
    /\ backend = [loaded |-> TRUE, emb |-> 600, tfidf |-> 468]
    /\ semantic_match = NoResult
    /\ tiers = NoTiers
    /\ final_score = NoResult
    /\ feedback = "none"
    /\ db = "none"
    /\ error = "none"
    /\ tfidf_fitted = 0
    /\ ev = <<>>
    /\ text = [prefix |-> "", parts |-> <<>>]
    /\ nlp = FALSE
    /\ extracted_skills = <<>>
    /\ unique_skills = <<>>
    /\ component_score = NoResult
    /\ batch = NoResult
    /\ upload_dir = {}
    /\ resume_table = <<>>
    /\ next_resume_id = 1
    /\ http_response = "none"
    /\ tier_input = NoResult
    /\ tier_matches = <<>>
    /\ llm = "absent"
    /\ personalized_feedback = NoResult

SpecParse == InitParse /\ [][NextParse]_vars

\* ------------------------------------------------------------- properties
\* The weights' sum is further than 0.01 from 1.0.
SumOutsideTolerance == WeightsTotal(weights) > 1010 \/ WeightsTotal(weights) < 990

\* C1: a weight set whose sum differs from 1.0 by more than 0.01 is rejected
\* with InvalidWeights and never gets a FinalScore; a weight set whose sum is
\* within 0.01 of 1.0 is never rejected, and what the pipeline ends with is a
\* FinalScore.
C1_WeightValidation ==
    /\ SumOutsideTolerance => pc # "scored" /\ final_score.status # "ok"
    /\ ~SumOutsideTolerance => pc # "failed" /\ final_score.status # "InvalidWeights"
    /\ pc = "failed" => final_score.status = "InvalidWeights"
    /\ pc = "scored" => final_score.status = "ok"

InRange(x) == 0 <= x /\ x <= 1000

\* C2: in every FinalScore computed with validated weights the overall score,
\* the five component scores and every sub-score of DetailedScores lie in
\* [0,100], and confidence_level is low, medium or high.
C2_ScoreRanges ==
    pc = "scored" =>
        LET d == final_score.detailed_scores
        IN  /\ InRange(final_score.overall_score)
            /\ \A f \in {"hard_skills_score", "soft_skills_score", "experience_score",
                         "education_score", "semantic_match_score",
                         "technical_skills_score", "domain_expertise_score",
                         "tools_platforms_score", "years_experience_score",
                         "experience_relevance_score", "education_level_score",
                         "education_relevance_score"} : InRange(d[f])
            /\ final_score.confidence_level \in {"low", "medium", "high"}

MatchedJdSkills ==
    {semantic_match.skill_matches[i].jd_skill : i \in 1..Len(semantic_match.skill_matches)}
MatchedResumeSkills ==
    {semantic_match.skill_matches[i].resume_skill :
        i \in 1..Len(semantic_match.skill_matches)}

\* C3: in every result of match_resume_to_jd, missing_skills is exactly the
\* required JD skills that are the jd_skill of no match and additional_skills
\* is exactly the resume skills that are the resume_skill of no match, so
\* that both are disjoint from the matched skills of their side.
C3_MissingAdditional ==
    semantic_match.status = "ok" =>
        /\ Range(semantic_match.missing_skills)
               = Range(jd_parsed.required_skills) \ MatchedJdSkills
        /\ Range(semantic_match.additional_skills)
               = Range(AllResumeSkills(skill_profile)) \ MatchedResumeSkills
        /\ Range(semantic_match.missing_skills) \cap MatchedJdSkills = {}
        /\ Range(semantic_match.additional_skills) \cap MatchedResumeSkills = {}

\* A result with matched, missing and additional skills all present.
C3_Witness ==
    /\ semantic_match.status = "ok"
    /\ semantic_match.skill_matches # <<>>
    /\ semantic_match.missing_skills # <<>>
    /\ semantic_match.additional_skills # <<>>

\* C4: in every result of match_resume_to_jd the resume_skill of every match
\* is a skill name of the resume profile and its jd_skill is a required or a
\* preferred skill of the JD.
C4_MatchMembers ==
    semantic_match.status = "ok" =>
        /\ MatchedResumeSkills \subseteq Range(AllResumeSkills(skill_profile))
        /\ MatchedJdSkills
               \subseteq Range(jd_parsed.required_skills) \cup Range(jd_parsed.preferred_skills)

MatchTypes ==
    {semantic_match.skill_matches[i].match_type : i \in 1..Len(semantic_match.skill_matches)}

\* A result holding a fuzzy and a semantic match, one of them on a preferred
\* skill.
C4_Witness ==
    /\ semantic_match.status = "ok"
    /\ {"fuzzy", "semantic"} \subseteq MatchTypes
    /\ \E i \in 1..Len(semantic_match.skill_matches) :
          semantic_match.skill_matches[i].jd_skill \in Range(jd_parsed.preferred_skills)

TierRank(match_type) ==
    CASE match_type = "exact" -> 1
      [] match_type = "fuzzy" -> 2
      [] OTHER -> 3

\* C5: the cascade runs exact, then fuzzy, then semantic; a skill of an exact
\* match is never an input of the fuzzy tier, and a skill of an exact or fuzzy
\* match is never an input of the semantic tier.
C5_CascadeInputs ==
    semantic_match.status = "ok" =>
        LET m == semantic_match.skill_matches
        IN  /\ \A i \in 1..Len(m) :
                  m[i].match_type = "exact" =>
                      /\ m[i].resume_skill \notin Range(tiers.fuzzy_resume)
                      /\ m[i].jd_skill \notin Range(tiers.fuzzy_jd)
            /\ \A i \in 1..Len(m) :
                  m[i].match_type \in {"exact", "fuzzy"} =>
                      /\ m[i].resume_skill \notin Range(tiers.semantic_resume)
                      /\ m[i].jd_skill \notin Range(tiers.semantic_jd)
            /\ \A i \in 1..Len(m) :
                  m[i].match_type = "semantic" =>
                      /\ tiers.semantic_ran
                      /\ m[i].resume_skill \in Range(tiers.semantic_resume)
                      /\ m[i].jd_skill \in Range(tiers.semantic_jd)
            /\ \A i, j \in 1..Len(m) :
                  i < j => TierRank(m[i].match_type) <= TierRank(m[j].match_type)

\* All three tiers have produced a match in one run.
C5_Witness ==
    /\ semantic_match.status = "ok"
    /\ MatchTypes = {"exact", "fuzzy", "semantic"}
    /\ tiers.semantic_ran

\* The overall score before rounding (the local overall_score of
\* calculate_comprehensive_score), in 1/10000 point.
RawOverall ==
    WeightedOverall(ComponentScores(parsed_resume, skill_profile, semantic_match, jd_parsed),
                    weights)

\* The level the thresholds give for the unrounded overall score.
ThresholdTier ==
    IF RawOverall >= 800000 THEN "High"
    ELSE IF RawOverall >= 600000 THEN "Medium"
    ELSE "Low"

MoreMissingThanMatched ==
    final_score.detailed_scores.skills_missing_count
        > final_score.detailed_scores.skills_matched_count

ExceptionalComponent ==
    \/ final_score.detailed_scores.experience_score >= 900
    \/ final_score.detailed_scores.hard_skills_score >= 950
    \/ final_score.detailed_scores.education_score >= 900

LowConfidence == final_score.detailed_scores.overall_confidence < 600

\* C6: the suitability is the threshold tier of the (unrounded) overall score
\* followed by rule 1 (more missing than matched: one level down), then rule 2
\* (exceptional component: Low to Medium iff overall >= 50), then rule 3
\* (overall_confidence < 60: High to Medium).  Worked out by outcome: High
\* needs a High tier that neither downgrade touches; Low is what rule 1 leaves
\* Low and rule 2 does not lift; everything else is Medium.
C6_SuitabilityOrder ==
    pc = "scored" =>
        LET lowAfterRule1 ==
                \/ ThresholdTier = "Low"
                \/ ThresholdTier = "Medium" /\ MoreMissingThanMatched
            lifted == ExceptionalComponent /\ RawOverall >= 500000
        IN  final_score.suitability =
                IF ThresholdTier = "High" /\ ~MoreMissingThanMatched /\ ~LowConfidence
                THEN "High"
                ELSE IF lowAfterRule1 /\ ~lifted THEN "Low"
                ELSE "Medium"

\* A Low tier of at least 50 points with more skills missing than matched and
\* an exceptional component: rule 1 leaves it Low, rule 2 then makes it Medium.
C6_Witness ==
    /\ pc = "scored"
    /\ ThresholdTier = "Low"
    /\ RawOverall >= 500000
    /\ MoreMissingThanMatched
    /\ ExceptionalComponent
    /\ final_score.suitability = "Medium"

\* C7 as stated: with more skills missing than matched, a threshold level of
\* High ends as Medium and a threshold level of Medium ends as Low.
C7_DowngradeOneLevel ==
    pc = "scored" /\ MoreMissingThanMatched =>
        /\ ThresholdTier = "High" => final_score.suitability = "Medium"
        /\ ThresholdTier = "Medium" => final_score.suitability = "Low"

\* C7 amended: with more skills missing than matched, a threshold level of
\* High ends as Medium; a threshold level of Medium ends as Low unless a
\* component is exceptional (experience >= 90, hard skills >= 95 or education
\* >= 90), in which case rule 2 lifts it back and it ends as Medium.
C7_DowngradeThenUpgrade ==
    pc = "scored" /\ MoreMissingThanMatched =>
        /\ ThresholdTier = "High" => final_score.suitability = "Medium"
        /\ ThresholdTier = "Medium" =>
               final_score.suitability = IF ExceptionalComponent THEN "Medium" ELSE "Low"

\* A Medium tier with more skills missing than matched and no exceptional
\* component has ended as Low.
C7_Witness ==
    /\ pc = "scored"
    /\ MoreMissingThanMatched
    /\ ThresholdTier = "Medium"
    /\ ~ExceptionalComponent
    /\ final_score.suitability = "Low"

\* C8: with more skills missing than matched the suitability is never High,
\* whatever the overall score and the experience, hard-skills and education
\* scores.
C8_NeverHighWhenMissing ==
    pc = "scored" /\ MoreMissingThanMatched => final_score.suitability # "High"

\* More skills missing than matched with a High tier and experience and
\* education both at 90 or more: the result is Medium.
C8_Witness ==
    /\ pc = "scored"
    /\ MoreMissingThanMatched
    /\ ThresholdTier = "High"
    /\ final_score.detailed_scores.experience_score >= 900
    /\ final_score.detailed_scores.education_score >= 900
    /\ final_score.suitability = "Medium"

\* C9: a FinalScore whose reported overall_score is at or above the high
\* threshold (80.0) and for which neither downgrade rule fires (missing <=
\* matched and overall_confidence >= 60) has suitability High.
C9_ReportedHighIsHigh ==
    pc = "scored" /\ final_score.overall_score >= 800
        /\ ~MoreMissingThanMatched /\ ~LowConfidence
        => final_score.suitability = "High"

\* Values a component score is raised to.
ComponentGrid == {0, 250, 500, 750, 1000}

\* C10: with the weights fixed, raising any one of the five component scores
\* while the other four stay as they are never lowers the reported
\* overall_score.
C10_OverallMonotone ==
    pc = "scored" =>
        LET c == ComponentScores(parsed_resume, skill_profile, semantic_match, jd_parsed)
        IN  \A k \in DOMAIN c : \A v \in ComponentGrid :
                v > c[k] =>
                    RoundedOverall(WeightedOverall([c EXCEPT ![k] = v], weights))
                        >= final_score.overall_score

LevelRank(level) ==
    CASE level = "low" -> 1
      [] level = "medium" -> 2
      [] OTHER -> 3

\* The confidence_level of the same evaluation on a resume without an email
\* and without work entries.
ConfidenceWithoutEmailAndWork ==
    calculate_comprehensive_score(
        [parsed_resume EXCEPT !.email = FALSE, !.work_experience = <<>>],
        skill_profile, semantic_match, jd_parsed, weights).confidence_level

\* C11: an evaluation whose resume has an email and at least one work entry
\* has a confidence_level at least that of the evaluation that differs only
\* in lacking both, in the order low < medium < high.
C11_ConfidenceMonotone ==
    pc = "scored" /\ parsed_resume.email /\ parsed_resume.work_experience # <<>> =>
        LevelRank(final_score.confidence_level)
            >= LevelRank(ConfidenceWithoutEmailAndWork)

\* An evaluation with email and work entries whose level is strictly above
\* the level it has without them.
C11_Witness ==
    /\ pc = "scored"
    /\ parsed_resume.email
    /\ parsed_resume.work_experience # <<>>
    /\ final_score.confidence_level = "high"
    /\ ConfidenceWithoutEmailAndWork = "medium"

\* What the matcher returns for the same skills with the sentence transformer
\* loaded.
MatchesWithBackend ==
    match_skills_comprehensive(AllResumeSkills(skill_profile),
                               jd_parsed.required_skills \o jd_parsed.preferred_skills,
                               TRUE).matches

\* C12: without the embedding backend matching still returns a result; the
\* semantic tier is skipped (no match of type semantic), embedding_similarity
\* is 0, the exact and fuzzy matches are those found with the backend, and
\* missing_skills and additional_skills are computed from them as usual.
C12_BackendAbsent ==
    /\ pc # "start" => semantic_match.status = "ok"
    /\ semantic_match.status = "ok" /\ ~backend.loaded =>
           /\ "semantic" \notin MatchTypes
           /\ ~tiers.semantic_ran
           /\ semantic_match.embedding_similarity = 0
           /\ semantic_match.skill_matches
                  = SelectSeq(MatchesWithBackend, LAMBDA x : x.match_type # "semantic")
           /\ Range(semantic_match.missing_skills)
                  = Range(jd_parsed.required_skills) \ MatchedJdSkills
           /\ Range(semantic_match.additional_skills)
                  = Range(AllResumeSkills(skill_profile)) \ MatchedResumeSkills

\* A run without the backend that found an exact and a fuzzy match and left
\* a required skill missing which the semantic tier would have matched.
C12_Witness ==
    /\ semantic_match.status = "ok"
    /\ ~backend.loaded
    /\ MatchTypes = {"exact", "fuzzy"}
    /\ semantic_match.missing_skills # <<>>
    /\ semantic_match.additional_skills # <<>>
    /\ \E i \in 1..Len(MatchesWithBackend) : MatchesWithBackend[i].match_type = "semantic"

\* Some stage of the pipeline did not return.
StageFailed == pc = "failed" /\ done # PipelineOrder

\* C13: if a stage of an evaluation fails (invalid weights included) no
\* ResumeEvaluation is added or committed and the caller gets an error; a
\* record is added or committed only when every stage through feedback
\* generation has returned.
C13_NoRecordOnFailure ==
    /\ StageFailed => db = "none" /\ error = "HTTP_500"
    /\ final_score.status = "InvalidWeights" => StageFailed
    /\ db # "none" =>
           /\ done = PipelineOrder
           /\ final_score.status = "ok"
           /\ feedback = "generated"
    /\ pc = "returned" => db = "committed" /\ error = "none"

\* The evaluation failed on the caller's weights after matching had returned.
C13_Witness ==
    /\ pc = "failed"
    /\ final_score.status = "InvalidWeights"
    /\ done = <<"extract_skills", "parse_jd", "match">>
    /\ db = "none"
    /\ error = "HTTP_500"

\* C14: the stages of one evaluation run in pipeline order, each after its
\* predecessor has returned: the stages that have returned are always an
\* initial part of extract skills, parse JD, match, score, feedback, and each
\* stage's result exists only once the stage has returned.
C14_StageOrder ==
    /\ Len(done) <= Len(PipelineOrder)
    /\ \A i \in 1..Len(done) : done[i] = PipelineOrder[i]
    /\ skill_profile # NoResult <=> "extract_skills" \in Range(done)
    /\ jd_parsed # NoResult <=> "parse_jd" \in Range(done)
    /\ semantic_match # NoResult <=> "match" \in Range(done)
    /\ final_score.status = "ok" <=> "score" \in Range(done)
    /\ feedback # "none" <=> "feedback" \in Range(done)

\* All five stages have returned and the evaluation has been returned.
C14_Witness ==
    /\ pc = "returned"
    /\ done = PipelineOrder

\* C15: two evaluations running concurrently on one service instance share no
\* mutable state, so that under every interleaving each one's result (here the
\* text similarity its matching returns) is the result of its run alone.
C15_Reentrant ==
    ev # <<>> =>
        \A e \in Evaluations :
            ev[e].pc = "done" => ev[e].text_similarity = ev[e].docs.similarity

\* C16: for every canonical skill name of the dictionary, extracting from a
\* text that is just that name yields an ExtractedSkill of that name whose
\* category is the one the dictionary lists the name under.
C16_CanonicalNameFound ==
    \A k \in 1..Len(skill_database) :
        (pc = "profiled" /\ text = [prefix |-> "", parts |-> <<skill_database[k].skill>>]) =>
            \E i \in 1..Len(unique_skills) :
                /\ unique_skills[i].name = skill_database[k].skill
                /\ unique_skills[i].category = skill_database[k].category

SameKeyCandidates(skill) == {extracted_skills[j].confidence : j \in {n \in 1..Len(extracted_skills) : DedupKey(extracted_skills[n]) = DedupKey(skill)}}

\* C17: after the candidates of all strategies are merged, the result holds
\* at most one entry per (canonical name, category), and its confidence is
\* the maximum confidence among the candidates of that pair.
C17_Deduplicated ==
    pc = "profiled" =>
        /\ \A i, j \in 1..Len(unique_skills) : DedupKey(unique_skills[i]) = DedupKey(unique_skills[j]) => i = j
        /\ \A i \in 1..Len(unique_skills) : unique_skills[i].confidence = MaxOf(SameKeyCandidates(unique_skills[i]))

C17_Witness ==
    /\ pc = "profiled"
    /\ \E i, j \in 1..Len(extracted_skills) :
          /\ i < j
          /\ DedupKey(extracted_skills[i]) = DedupKey(extracted_skills[j])
          /\ extracted_skills[i].confidence < extracted_skills[j].confidence

\* The terms of the hard-skills formula on the current result of the matcher.
Required == Len(jd_parsed.required_skills)
Critical == {i \in 1..Required : IsCriticalName(jd_parsed.required_skills[i])}
MissingCritical == {i \in Critical : jd_parsed.required_skills[i] \in Range(semantic_match.missing_skills)}
MatchesAtLeast(c) == Cardinality({i \in 1..Len(semantic_match.skill_matches) : semantic_match.skill_matches[i].confidence >= c})
NonEmptyBuckets == Cardinality({b \in {"technical_skills", "soft_skills", "domain_expertise", "tools_platforms"} : skill_profile[b] # <<>>})

\* base + 0.2*diversity + 0.1*high_conf/|required| - 0.3*missing_critical/|critical|
\* in thousandths, times |required| * |critical| (|critical| read as 1 when
\* there is no critical skill and the last term is absent).
HardSkillsDenominator == Required * Max(Cardinality(Critical), 1)
HardSkillsNumerator ==
    Max(Cardinality(Critical), 1) * (1000 * MatchesAtLeast(700) + 100 * MatchesAtLeast(900))
        + 50 * NonEmptyBuckets * HardSkillsDenominator
        - 300 * Cardinality(MissingCritical) * Required

\* C18: the hard-skills score is 0.5 when the JD has no required skills, and
\* otherwise base + 0.2*diversity + 0.1*high_conf/|required| -
\* 0.3*missing_critical/|critical| clamped to [0,1], base being the matches of
\* confidence >= 0.70 over |required| (equal to within the two thousandths the
\* truncated terms can lose).
C18_HardSkillsFormula ==
    pc = "computed" /\ component_score.of = "hard_skills" =>
        IF Required = 0 THEN component_score.value = 500
        ELSE LET expected == Max(0, Min(1000 * HardSkillsDenominator, HardSkillsNumerator))
                 got == component_score.value * HardSkillsDenominator
             IN  /\ component_score.value \in 0..1000
                 /\ got <= expected
                 /\ expected - got < 2 * HardSkillsDenominator

\* A JD with a critical skill the resume lacks and another skill it has: every
\* term of the formula is at work and the score lies strictly inside [0,1].
C18_Witness ==
    /\ pc = "computed"
    /\ component_score.of = "hard_skills"
    /\ Required > 0
    /\ MissingCritical # {}
    /\ MatchesAtLeast(900) > 0
    /\ component_score.value > 0
    /\ component_score.value < 1000

YearsCandidate == IF parsed_resume.total_experience_years = NONE THEN 0 ELSE parsed_resume.total_experience_years
YearsRequired == IF jd_parsed.required_experience_years \in {NONE, 0} THEN 20 ELSE 10 * jd_parsed.required_experience_years

\* C19: with r = candidate_years / required_years (required_years 2 when the
\* JD gives none or 0) the years score is 1.0 when r >= 1 and never more, 0.8
\* when 0.75 <= r < 1, 0.6 when 0.5 <= r < 0.75 and 0.5*r below; a candidate
\* with 0 years scores 0.0.
C19_YearsBands ==
    pc = "computed" /\ component_score.of = "years_experience" =>
        LET c == YearsCandidate
            q == YearsRequired
            v == component_score.value
        IN  /\ v <= 1000
            /\ c >= q => v = 1000
            /\ (4 * c >= 3 * q /\ c < q) => v = 800
            /\ (2 * c >= q /\ 4 * c < 3 * q) => v = 600
            /\ 2 * c < q => (v * q <= 500 * c /\ 500 * c < (v + 1) * q)
            /\ c = 0 => v = 0

\* A candidate with more than one and a half times the required years: the
\* branch of the bonus.
C19_Witness ==
    /\ pc = "computed"
    /\ component_score.of = "years_experience"
    /\ 2 * YearsCandidate > 3 * YearsRequired
    /\ jd_parsed.required_experience_years = 0
    /\ component_score.value = 1000

\* The five factors of the evaluation just scored, in thousandths, each times
\* max(|required|, 1) so that the coverage factor is an integer.
CoverageScale == Max(Len(jd_parsed.required_skills), 1)
ConfidenceFactors ==
    << final_score.detailed_scores.parsing_confidence * CoverageScale,
       (IF semantic_match.skill_matches = <<>> THEN 500
        ELSE final_score.detailed_scores.matching_confidence) * CoverageScale,
       Min(1000 * Len(semantic_match.skill_matches), 1000 * CoverageScale),
       (IF parsed_resume.email THEN 1000 ELSE 500) * CoverageScale,
       (IF parsed_resume.work_experience # <<>> THEN 1000 ELSE 300) * CoverageScale >>

\* C20: confidence_level follows the mean of exactly five factors (parsing
\* confidence, matching confidence or 0.5 without matches, min(matched /
\* |required|, 1), 1 or 0.5 for the email, 1 or 0.3 for work experience):
\* high from 0.8, medium from 0.6, low below.
C20_ConfidenceLevel ==
    pc = "scored" =>
        LET total == SumSeq(ConfidenceFactors)
            n == Len(ConfidenceFactors)
        IN  /\ n = 5
            /\ final_score.confidence_level =
                  (IF total >= 800 * n * CoverageScale THEN "high"
                   ELSE IF total >= 600 * n * CoverageScale THEN "medium"
                   ELSE "low")

\* An evaluation without any match, where the matching factor is the 0.5 of
\* the empty case, that comes out medium.
C20_Witness ==
    /\ pc = "scored"
    /\ semantic_match.skill_matches = <<>>
    /\ jd_parsed.required_skills # <<>>
    /\ parsed_resume.email
    /\ parsed_resume.work_experience # <<>>
    /\ final_score.confidence_level = "medium"

\* The evaluation of the same resume and JD with the sentence transformer not
\* loaded: the matcher's result and the score the engine gives for it.
MatchWithoutBackend == match_resume_to_jd(skill_profile, jd_parsed, [backend EXCEPT !.loaded = FALSE])
ScoreWithoutBackend == calculate_comprehensive_score(parsed_resume, skill_profile, MatchWithoutBackend, jd_parsed, weights)

\* C21: under the default weights the evaluation without the embedding
\* backend has an overall_score at most 3.5 points below the one with the
\* backend, and its suitability is still High when the score with the backend
\* was 83.5 or more.
C21_BackendLossBounded ==
    (pc = "scored" /\ weights = DefaultWeights /\ backend.loaded) =>
        /\ final_score.overall_score - ScoreWithoutBackend.overall_score <= 35
        /\ (final_score.suitability = "High" /\ final_score.overall_score >= 835)
              => ScoreWithoutBackend.suitability = "High"

\* The feedback of the same evaluation from a generator whose LLM answers.
FeedbackWithLlm == generate_comprehensive_feedback(parsed_resume, final_score, semantic_match, jd_parsed, "working", "assessment a")

StructuredLists(fb) == <<fb.strengths, fb.areas_for_improvement, fb.specific_recommendations, fb.skill_gap_analysis, fb.career_advancement_tips, fb.interview_preparation_tips>>

\* C22: with the LLM absent or its call failing, generate_comprehensive_feedback
\* still returns a complete PersonalizedFeedback: the overall assessment is
\* the template of the score's suitability tier, the structured lists are
\* those a working LLM would leave, and confidence_level is the FinalScore's.
C22_FeedbackWithoutLlm ==
    (pc = "feedback_done" /\ llm \in {"absent", "failing"}) =>
        /\ personalized_feedback.status = "ok"
        /\ personalized_feedback.overall_assessment.source = "template"
        /\ personalized_feedback.overall_assessment.opening = final_score.suitability
        /\ personalized_feedback.overall_assessment.action = VerdictAction(final_score.suitability)
        /\ StructuredLists(personalized_feedback) = StructuredLists(FeedbackWithLlm)
        /\ personalized_feedback.confidence_level = final_score.confidence_level

\* Feedback generated after the call of the LLM raised, for an evaluation with
\* missing skills.
C22_Witness ==
    /\ pc = "feedback_done"
    /\ llm = "failing"
    /\ personalized_feedback.overall_assessment.source = "template"
    /\ personalized_feedback.overall_assessment.gaps # <<>>
    /\ final_score.suitability = "Medium"

\* C23: structuring a resume drops a work-experience entry if and only if its
\* title or company is empty and an education entry if and only if neither
\* degree nor institution is set; it raises no error and returns the parsing
\* confidence it was given.
C23_DroppedIffEmpty ==
    pc \in {"parsed", "entries_extracted"} =>
        /\ structured_resume.status = "ok"
        /\ structured_resume.work_experience =
              SelectSeq(raw_resume.work, LAMBDA e : ~(e.title = "" \/ e.company = ""))
        /\ structured_resume.education =
              SelectSeq(raw_resume.education, LAMBDA e : ~(e.degree = "" /\ e.institution = ""))
        /\ structured_resume.parsing_confidence = raw_resume.parsing_confidence

\* The JD skills of the fuzzy tier's input that have a resume skill of ratio
\* at or above the threshold, as positions of the input.
FuzzyMatchable ==
    {n \in 1..Len(tier_input.jd_skills) :
        \E i \in 1..Len(tier_input.resume_skills) :
            token_sort_ratio(tier_input.jd_skills[n], tier_input.resume_skills[i]) >= 85}

\* C24: the fuzzy tier matches a JD skill if and only if its best token-sort
\* ratio against the resume skills it was given is at least 85; the match
\* pairs it with the resume skill of highest ratio, the first one in input
\* order on ties, with confidence ratio/100 and match_type "fuzzy".
C24_FuzzyTier ==
    pc = "fuzzy_done" =>
        LET R == tier_input.resume_skills
            J == tier_input.jd_skills
        IN  /\ {tier_matches[k].jd_skill : k \in 1..Len(tier_matches)} =
                   {J[n] : n \in FuzzyMatchable}
            /\ Len(tier_matches) = Cardinality(FuzzyMatchable)
            /\ \A k \in 1..Len(tier_matches) :
                  LET m == tier_matches[k]
                  IN  /\ m.match_type = "fuzzy"
                      /\ m.skill_name = m.jd_skill
                      /\ \E i \in 1..Len(R) :
                            /\ R[i] = m.resume_skill
                            /\ \A j \in 1..Len(R) :
                                  token_sort_ratio(m.jd_skill, R[j]) <= token_sort_ratio(m.jd_skill, R[i])
                            /\ \A j \in 1..(i - 1) :
                                  token_sort_ratio(m.jd_skill, R[j]) < token_sort_ratio(m.jd_skill, R[i])
                            /\ m.confidence = token_sort_ratio(m.jd_skill, R[i]) * 10

\* A fuzzy tier run with a tie at the top (two resume skills of ratio 100 for
\* "C#") and a JD skill left unmatched.
C24_Witness ==
    /\ pc = "fuzzy_done"
    /\ \E k \in 1..Len(tier_matches), i, j \in 1..Len(tier_input.resume_skills) :
          /\ i < j
          /\ tier_matches[k].resume_skill = tier_input.resume_skills[i]
          /\ token_sort_ratio(tier_matches[k].jd_skill, tier_input.resume_skills[j]) = tier_matches[k].confidence \div 10
    /\ Len(tier_matches) < Len(tier_input.jd_skills)

\* skill_component of the claim: min(1, mean(|matches|/|required|, sum of the
\* match confidences/|required|)), 0 without required skills; thousandths.
SkillComponent ==
    LET required == Len(jd_parsed.required_skills)
        matches == semantic_match.skill_matches
        confidences == SumSeq([i \in 1..Len(matches) |-> matches[i].confidence])
    IN  IF required = 0 THEN 0
        ELSE Min((1000 * Len(matches) + confidences) \div (2 * required), 1000)

\* C25: overall_similarity = 0.40*skill_component + 0.35*embedding_similarity
\* + 0.25*text_similarity, and the result lies in [0,1].
C25_OverallSimilarity ==
    pc = "matched" =>
        /\ semantic_match.overall_similarity =
              (400 * SkillComponent + 350 * semantic_match.embedding_similarity
                  + 250 * semantic_match.text_similarity) \div 1000
        /\ semantic_match.overall_similarity >= 0
        /\ semantic_match.overall_similarity <= 1000

\* The level after the thresholds and rule 1 (more skills missing than
\* matched: one level down), before the upgrade rule.
LevelAfterRule1 ==
    IF ~MoreMissingThanMatched THEN ThresholdTier
    ELSE IF ThresholdTier = "High" THEN "Medium"
    ELSE "Low"

\* C26: the upgrade rule turns Low into Medium if and only if the level after
\* rule 1 is Low, the overall score is at least 50 and experience >= 90, hard
\* skills >= 95 or education >= 90; it leaves Medium and High as they are and
\* never produces High (what follows it, rule 3, only takes High to Medium).
C26_UpgradeRule ==
    pc = "scored" =>
        /\ (LevelAfterRule1 = "Low" /\ final_score.suitability # "Low")
              <=> (LevelAfterRule1 = "Low" /\ RawOverall >= 500000 /\ ExceptionalComponent)
        /\ LevelAfterRule1 = "Low" => final_score.suitability \in {"Low", "Medium"}
        /\ LevelAfterRule1 = "Medium" => final_score.suitability = "Medium"
        /\ LevelAfterRule1 = "High" =>
              final_score.suitability = IF LowConfidence THEN "Medium" ELSE "High"

\* A threshold level of Low with no more skills missing than matched, at least
\* 50 points and an exceptional component has ended as Medium.
C26_Witness ==
    /\ pc = "scored"
    /\ ThresholdTier = "Low"
    /\ ~MoreMissingThanMatched
    /\ RawOverall >= 500000
    /\ ExceptionalComponent
    /\ final_score.suitability = "Medium"

\* Low < Medium < High
SuitabilityRank(level) == IF level = "High" THEN 3 ELSE IF level = "Medium" THEN 2 ELSE 1

\* C30: the returned suitability is above the level of the thresholds only by
\* the step Low to Medium; High is returned only with an overall score at or
\* above the high threshold (80), and an overall score below 50 ends as Low.
C30_NoRaiseAboveThreshold ==
    pc = "scored" =>
        /\ \/ SuitabilityRank(final_score.suitability) <= SuitabilityRank(ThresholdTier)
           \/ ThresholdTier = "Low" /\ final_score.suitability = "Medium"
        /\ final_score.suitability = "High" =>
              RawOverall >= 800000 /\ final_score.overall_score >= 800
        /\ (RawOverall < 500000 \/ final_score.overall_score < 500) =>
              final_score.suitability = "Low"

\* An evaluation below 50 points with an exceptional component has ended as
\* Low.
C30_Witness ==
    /\ pc = "scored"
    /\ RawOverall < 500000
    /\ ExceptionalComponent
    /\ final_score.suitability = "Low"

\* C28: in the result of the cascade no JD skill is the jd_skill of two
\* skill matches and no resume skill is the resume_skill of two skill matches,
\* also for a JD skill listed as required and as preferred.
C28_OneToOne ==
    pc = "matched" =>
        LET matches == semantic_match.skill_matches
        IN  \A i, j \in 1..Len(matches) :
                i # j => /\ matches[i].jd_skill # matches[j].jd_skill
                         /\ matches[i].resume_skill # matches[j].resume_skill

\* C27: whatever uploads (successful or failed) and deletions have run, every
\* Resume record in the database refers to a file that is on disk: neither the
\* cleanup of a failed upload nor a deletion removes a file another record
\* points to.
C27_RecordsHaveFiles ==
    pc = "serving" =>
        \A i \in 1..Len(resume_table) : resume_table[i].file_path \in upload_dir

\* The elements of resume_ids whose evaluation succeeds, in input order.
SuccessfulElements ==
    SelectSeq([n \in 1..Len(batch.resume_ids) |-> n], LAMBDA n : batch.outcomes[n] = "ok")

\* C29: batch_evaluate_resumes attempts every resume id of its input once, in
\* input order, a failure does not stop the later ones, and the returned list
\* holds exactly the successful evaluations, in input order.
C29_BatchEvaluatesAll ==
    /\ pc = "batch_running" =>
          /\ batch.position <= Len(batch.resume_ids) + 1
          /\ batch.attempted = SubSeq(batch.resume_ids, 1, batch.position - 1)
    /\ pc = "batch_returned" =>
          /\ batch.attempted = batch.resume_ids
          /\ batch.returned =
                [k \in 1..Len(SuccessfulElements) |->
                    [resume_id |-> batch.resume_ids[SuccessfulElements[k]],
                     element |-> SuccessfulElements[k]]]

\* A batch has returned in which an evaluation failed and a later one
\* succeeded.
C29_Witness ==
    /\ pc = "batch_returned"
    /\ \E m, n \in 1..Len(batch.resume_ids) :
          /\ m < n
          /\ batch.outcomes[m] # "ok"
          /\ batch.outcomes[n] = "ok"
          /\ \E k \in 1..Len(batch.returned) : batch.returned[k].element = n

====
